---- MODULE Spec2Model ----
(***************************************************************************)
(* Model of the agent loops of the repository: shopping/agent.py `run`     *)
(* (computer + bash + editor tools) and mac/loop.py `agent_loop`           *)
(* (computer tool only), with the pure helpers they share                  *)
(* (_prune_images, _make_tool_result, _response_to_params).                *)
(*                                                                         *)
(* Python values are encoded as follows.                                   *)
(*   None                      the string NoneVal                          *)
(*   a dict                    a record holding exactly the keys present   *)
(*   a value that is either a str or a list (a message's or a tool         *)
(*   result's "content")       [str |-> s]  or  [list |-> <<...>>]         *)
(***************************************************************************)
EXTENDS Integers, Sequences, FiniteSets, TLC

VARIABLES
    driver,            \* "run" (shopping/agent.py) or "agent_loop" (mac/loop.py)
    max_iterations,    \* parameter max_iterations
    keep_n,            \* parameter only_n_most_recent_images
    messages,          \* the conversation (list of message params)
    pc,                \* position of the driver in its loop
    i,                 \* number of completed loop iterations (the loop variable)
    response,          \* the content blocks of the latest response, as received
    assistant_content, \* the converted blocks of the response being processed
    bi,                \* index of the next block of assistant_content to process
    tool_results,      \* tool_result blocks built so far in this iteration
    api_calls,         \* number of calls of client.beta.messages.create
    transmitted,       \* the conversation handed to the latest remote call
    abort_cause,       \* why the run raised: "none", "remote", "tool", "interrupt"
    cancel_requested,  \* asyncio.run's SIGINT handler has cancelled the main task
    calls,             \* tool invocations so far, in order: tool_use id, executor reached
    display,           \* pointer/keyboard actions performed on the display
    bash,              \* the BashSession: child process alive?, spawn count, shell state
    files,             \* the editor's file ("absent" or its content)
    p_conv,            \* pure-function harness: input conversation
    p_keep,            \* pure-function harness: images_to_keep
    p_out,             \* pure-function harness: _prune_images(p_conv, p_keep)
    p_out2,            \* pure-function harness: _prune_images applied to p_out
    p_phase,           \* pure-function harness: "build", "pruned", "repruned", "off"
    r_in,              \* pure-function harness: a ToolResult
    r_id,              \* pure-function harness: a tool_use_id
    r_out,             \* pure-function harness: _make_tool_result(r_in, r_id)
    r_phase,           \* pure-function harness: "in", "out", "off"
    process,           \* BashSession._process: 0 (None) or the pid of the current child
    children,          \* every child spawned so far, by pid: shell, pipes, queues
    s_pc,              \* where the caller of the session is: "idle", "read_out", "read_err", "off"
    s_call,            \* execute in progress: command, pid, what the child had been sent before
    s_sentinel,        \* execute in progress: the sentinel line
    s_stdout,          \* execute in progress: lines collected from _output_queue
    s_stderr,          \* execute in progress: lines collected from _error_queue
    s_waited,          \* ticks the current q.get(timeout=...) has been blocked
    s_elapsed,         \* ticks since execute was called
    s_expired,         \* execute in progress: ticks elapsed when a q.get first timed out, or 0
    s_snapshot,        \* execute in progress: the lines on the queues when a q.get first timed out
    s_calls,           \* number of calls made on the session so far
    s_last,            \* the call that returned last, with what it returned
    e_before,          \* pure-function harness: the editor's file before the call
    e_file,            \* pure-function harness: the editor's file
    e_old_str,         \* pure-function harness: old_str
    e_new_str,         \* pure-function harness: new_str
    e_out,             \* pure-function harness: the message _str_replace returned
    e_phase            \* pure-function harness: "in", "out", "off"

driver_vars == <<driver, max_iterations, keep_n, messages, pc, i, response, assistant_content,
                 bi, tool_results, api_calls, transmitted, abort_cause,
                 cancel_requested, calls, display, bash, files>>
prune_vars == <<p_conv, p_keep, p_out, p_out2, p_phase>>
result_vars == <<r_in, r_id, r_out, r_phase>>
editor_vars == <<e_before, e_file, e_old_str, e_new_str, e_out, e_phase>>
shell_vars == <<process, children, s_pc, s_call, s_sentinel, s_stdout, s_stderr,
                s_waited, s_elapsed, s_expired, s_snapshot, s_calls, s_last>>
vars == <<driver_vars, prune_vars, result_vars, shell_vars, editor_vars>>

-----------------------------------------------------------------------------
(* Bounds of the model *)

MaxIter == 2        \* largest max_iterations explored
MaxKeep == 2        \* largest only_n_most_recent_images explored
MaxTurns == 3       \* most turns of a conversation handed to _prune_images alone
MaxCalls == 3       \* calls made on one BashSession
TimeoutTicks == 2   \* ticks of the clock that make one q.get timeout
MaxIds == 2         \* tool_use ids handed to _make_tool_result alone

-----------------------------------------------------------------------------
(* Python values *)

NoneVal == "<None>"

\* Python truthiness of an optional string: None and "" are falsy.
Truthy(s) == s # NoneVal /\ s # ""

StrContent(s) == [str |-> s]
ListContent(l) == [list |-> l]
IsList(c) == "list" \in DOMAIN c

Min(a, b) == IF a <= b THEN a ELSE b

RECURSIVE SumSeq(_)
SumSeq(s) == IF s = <<>> THEN 0 ELSE Head(s) + SumSeq(Tail(s))

-----------------------------------------------------------------------------
(* Content blocks *)

TextEntry(t) == [type |-> "text", text |-> t]
ImageEntry(d) ==
    [type |-> "image",
     source |-> [type |-> "base64", media_type |-> "image/png", data |-> d]]

IsToolResult(b) == b.type = "tool_result"
IsToolUse(b) == b.type = "tool_use"
IsImage(e) == e.type = "image"

\* message["content"] if isinstance(message["content"], list) else []
BlocksOf(m) == IF IsList(m.content) THEN m.content.list ELSE <<>>

\* tr.get("content", []) iterated: a str content yields characters, never dicts.
EntriesOf(tr) == IF IsList(tr.content) THEN tr.content.list ELSE <<>>

ImagesInResult(tr) == Len(SelectSeq(EntriesOf(tr), IsImage))

ImagesInBlock(b) == IF IsToolResult(b) THEN ImagesInResult(b) ELSE 0

ImagesInTurn(m) ==
    LET bs == BlocksOf(m) IN SumSeq([k \in 1..Len(bs) |-> ImagesInBlock(bs[k])])

\* Faulty variant: counts the tool_result blocks instead of the images they hold
CountToolResults(msgs) ==
    SumSeq([k \in 1..Len(msgs) |-> Len(SelectSeq(BlocksOf(msgs[k]), IsToolResult))])

\* total = sum(1 for tr in tool_results for content in tr["content"] if image)
CountImages(msgs) == SumSeq([k \in 1..Len(msgs) |-> ImagesInTurn(msgs[k])])

-----------------------------------------------------------------------------
(* _prune_images *)

\* Faulty variant: off by one
ToRemoveOffByOne(total, images_to_keep) == total - images_to_keep + 1

\* to_remove = total - images_to_keep
ToRemove(total, images_to_keep) == total - images_to_keep

\* The inner loop over tr["content"]: an image is dropped while
\* removed < to_remove, everything else is appended to new_content.
\* `left` is to_remove - removed.  Returns [out, left].
RECURSIVE StripEntries(_, _)
StripEntries(entries, left) ==
    IF entries = <<>> THEN [out |-> <<>>, left |-> left]
    ELSE LET e == Head(entries) IN
         IF IsImage(e) /\ left > 0
         THEN StripEntries(Tail(entries), left - 1)
         ELSE LET rest == StripEntries(Tail(entries), left) IN
              [out |-> <<e>> \o rest.out, left |-> rest.left]

\* One pass of the outer loop body for a single tool_result block.
StripResult(tr, left) ==
    IF left <= 0 THEN [out |-> tr, left |-> left]                 \* break
    ELSE IF ~IsList(tr.content) THEN [out |-> tr, left |-> left]  \* continue
    ELSE LET s == StripEntries(tr.content.list, left) IN
         [out |-> [tr EXCEPT !.content = ListContent(s.out)], left |-> s.left]

\* Faulty variant: a tool_result whose content became empty is dropped from the turn
RECURSIVE StripBlocksDropsEmptied(_, _)
StripBlocksDropsEmptied(blocks, left) ==
    IF blocks = <<>> THEN [out |-> <<>>, left |-> left]
    ELSE LET b == Head(blocks)
             h == IF IsToolResult(b) THEN StripResult(b, left)
                  ELSE [out |-> b, left |-> left]
             rest == StripBlocksDropsEmptied(Tail(blocks), h.left)
             emptied == IsToolResult(b) /\ h.out # b /\ EntriesOf(h.out) = <<>>
         IN [out |-> (IF emptied THEN <<>> ELSE <<h.out>>) \o rest.out,
             left |-> rest.left]

\* The comprehension's tool_result blocks of one message, walked in order.
RECURSIVE StripBlocks(_, _)
StripBlocks(blocks, left) ==
    IF blocks = <<>> THEN [out |-> <<>>, left |-> left]
    ELSE LET b == Head(blocks)
             h == IF IsToolResult(b) THEN StripResult(b, left)
                  ELSE [out |-> b, left |-> left]
             rest == StripBlocks(Tail(blocks), h.left)
         IN [out |-> <<h.out>> \o rest.out, left |-> rest.left]

RECURSIVE StripTurns(_, _)
StripTurns(msgs, left) ==
    IF msgs = <<>> THEN <<>>
    ELSE LET m == Head(msgs) IN
         IF ~IsList(m.content) THEN <<m>> \o StripTurns(Tail(msgs), left)
         ELSE LET s == StripBlocks(m.content.list, left) IN
              <<[m EXCEPT !.content = ListContent(s.out)]>>
                  \o StripTurns(Tail(msgs), s.left)

_prune_images(msgs, images_to_keep) ==
    LET total == CountImages(msgs)
        to_remove == ToRemove(total, images_to_keep)
    IN IF to_remove <= 0 THEN msgs ELSE StripTurns(msgs, to_remove)

-----------------------------------------------------------------------------
(* ToolResult (mac/tool.py) and _make_tool_result *)

ToolResult(output, error, base64_image) ==
    [output |-> output, error |-> error, base64_image |-> base64_image]

\* Faulty variant: the image entry is appended before the text entry
MakeToolResultImageFirst(result, tool_use_id) ==
    IF Truthy(result.error)
    THEN [type |-> "tool_result", content |-> StrContent(result.error),
          tool_use_id |-> tool_use_id, is_error |-> TRUE]
    ELSE [type |-> "tool_result",
          content |-> ListContent(
              (IF Truthy(result.base64_image)
               THEN <<ImageEntry(result.base64_image)>> ELSE <<>>)
              \o (IF Truthy(result.output)
                  THEN <<TextEntry(result.output)>> ELSE <<>>)),
          tool_use_id |-> tool_use_id, is_error |-> FALSE]

\* def _make_tool_result(result, tool_use_id)
_make_tool_result(result, tool_use_id) ==
    IF Truthy(result.error)
    THEN [type |-> "tool_result", content |-> StrContent(result.error),
          tool_use_id |-> tool_use_id, is_error |-> TRUE]
    ELSE [type |-> "tool_result",
          content |-> ListContent(
              (IF Truthy(result.output)
               THEN <<TextEntry(result.output)>> ELSE <<>>)
              \o (IF Truthy(result.base64_image)
                  THEN <<ImageEntry(result.base64_image)>> ELSE <<>>)),
          tool_use_id |-> tool_use_id, is_error |-> FALSE]

-----------------------------------------------------------------------------
(* Response blocks of the remote service and _response_to_params *)

RawText(t) == [type |-> "text", text |-> t, citations |-> NoneVal]
RawThinking(t, sig) == [type |-> "thinking", thinking |-> t, signature |-> sig]
RawToolUse(name, input) ==
    [type |-> "tool_use", id |-> NoneVal, name |-> name, input |-> input]
RawOther == [type |-> "redacted_thinking", data |-> "opaque"]

\* Faulty variant: blocks of a type the driver does not know are dropped.
ParamOfBlockKnownOnly(block) ==
    IF block.type = "text"
    THEN (IF block.text # "" THEN <<[type |-> "text", text |-> block.text]>>
          ELSE <<>>)
    ELSE IF block.type = "thinking"
    THEN <<[type |-> "thinking", thinking |-> block.thinking,
            signature |-> block.signature]>>
    ELSE IF block.type = "tool_use" THEN <<block>>
    ELSE <<>>

\* One block of the response: a non-empty BetaTextBlock becomes a text param, an
\* empty one is skipped, a thinking block keeps thinking and signature, anything
\* else is block.model_dump().
ParamOfBlock(block) ==
    IF block.type = "text"
    THEN (IF block.text # "" THEN <<[type |-> "text", text |-> block.text]>>
          ELSE <<>>)
    ELSE IF block.type = "thinking"
    THEN <<[type |-> "thinking", thinking |-> block.thinking,
            signature |-> block.signature]>>
    ELSE <<block>>

RECURSIVE _response_to_params(_)
_response_to_params(content) ==
    IF content = <<>> THEN <<>>
    ELSE ParamOfBlock(Head(content)) \o _response_to_params(Tail(content))

-----------------------------------------------------------------------------
(* Tool inputs (dicts): a key that is absent from the record is absent from the dict *)

Get(d, k, default) == IF k \in DOMAIN d THEN d[k] ELSE default

cScreenshot == [action |-> "screenshot"]
cKey == [action |-> "key", text |-> "Return"]
cKeyNoText == [action |-> "key"]
cBadKey == [action |-> "key", text |-> "notarealkey"]
cClick == [action |-> "left_click", coordinate |-> "inside"]
cMoveOob == [action |-> "mouse_move", coordinate |-> "outside"]
cType == [action |-> "type", text |-> "hi"]
cNoAction == [text |-> "hi"]
bEcho == [command |-> "echo hi"]
bCd == [command |-> "cd /tmp"]
bRestart == [restart |-> TRUE]
eCreate == [command |-> "create", path |-> "f", file_text |-> <<"a", "b", "b">>]
eReplaceA == [command |-> "str_replace", path |-> "f", old_str |-> "a", new_str |-> "b"]
eReplaceB == [command |-> "str_replace", path |-> "f", old_str |-> "b", new_str |-> "a"]
uQuery == [query |-> "shoes"]

-----------------------------------------------------------------------------
(* MacTool (mac/tool.py).  Every operation returns                          *)
(*   [kind |-> "result", result |-> ToolResult, acts |-> display actions],  *)
(*   [kind |-> "none"]    (the coroutine returned None), or                 *)
(*   [kind |-> "raise", exc |-> ...].                                       *)
(* shot_ok is the outcome of the screencapture subprocess.                  *)

Returned(result, acts) == [kind |-> "result", result |-> result, acts |-> acts]
ReturnedNone == [kind |-> "none"]
Raised(exc) == [kind |-> "raise", exc |-> exc]

KEYBOARD_KEYS == {"return", "tab", "space", "command", "shift", "ctrl"}

\* KEY_MAP.get(key, key.lower()); the keys used here are already lower case
\* except those KEY_MAP names.
_map_key(key) ==
    IF key = "Return" THEN "return"
    ELSE IF key = "super" THEN "command"
    ELSE key

screenshot(shot_ok) ==
    IF ~shot_ok THEN ToolResult(NoneVal, "screencapture failed: ", NoneVal)
    ELSE ToolResult(NoneVal, NoneVal, "png")

\* result.with_image(screenshot.base64_image)
_result_with_screenshot(result, shot_ok) ==
    ToolResult(result.output, result.error, screenshot(shot_ok).base64_image)

key(text, shot_ok) ==
    IF text = NoneVal
    THEN Returned(ToolResult(NoneVal, "text is required for key", NoneVal), <<>>)
    ELSE IF _map_key(text) \notin KEYBOARD_KEYS
    THEN Returned(ToolResult(NoneVal, "unrecognized key(s): " \o _map_key(text),
                             NoneVal), <<>>)
    ELSE Returned(_result_with_screenshot(ToolResult(NoneVal, NoneVal, NoneVal),
                                          shot_ok),
                  <<"press">>)

\* scale_coordinates(ScalingSource.API, ...) raises ToolError out of bounds.
OutOfBounds(coordinate) == coordinate = "outside"

mouse_move(text, coordinate, shot_ok) ==
    IF text # NoneVal
    THEN Returned(ToolResult(NoneVal, "text is not accepted for mouse_move",
                             NoneVal), <<>>)
    ELSE IF coordinate = NoneVal
    THEN Returned(ToolResult(NoneVal, "coordinate is required for mouse_move",
                             NoneVal), <<>>)
    ELSE IF OutOfBounds(coordinate)
    THEN Returned(ToolResult(NoneVal, "Coordinates are out of bounds", NoneVal),
                  <<>>)
    ELSE Returned(_result_with_screenshot(ToolResult(NoneVal, NoneVal, NoneVal),
                                          shot_ok),
                  <<"moveTo">>)

click(action, text, coordinate, shot_ok) ==
    IF text # NoneVal
    THEN Returned(ToolResult(NoneVal, "text is not accepted for " \o action,
                             NoneVal), <<>>)
    ELSE IF coordinate # NoneVal /\ OutOfBounds(coordinate)
    THEN Returned(ToolResult(NoneVal, "Coordinates are out of bounds", NoneVal),
                  <<>>)
    ELSE Returned(_result_with_screenshot(ToolResult(NoneVal, NoneVal, NoneVal),
                                          shot_ok),
                  (IF coordinate # NoneVal THEN <<"moveTo">> ELSE <<>>)
                      \o <<"click">>)

left_click_drag(text, start_coordinate, coordinate, shot_ok) ==
    IF text # NoneVal
    THEN Returned(ToolResult(NoneVal, "text is not accepted for left_click_drag",
                             NoneVal), <<>>)
    ELSE IF start_coordinate = NoneVal
    THEN Returned(ToolResult(NoneVal,
                             "start_coordinate is required for left_click_drag",
                             NoneVal), <<>>)
    ELSE IF coordinate = NoneVal
    THEN Returned(ToolResult(NoneVal, "coordinate is required for left_click_drag",
                             NoneVal), <<>>)
    ELSE IF OutOfBounds(start_coordinate) \/ OutOfBounds(coordinate)
    THEN Returned(ToolResult(NoneVal, "Coordinates are out of bounds", NoneVal),
                  <<>>)
    ELSE Returned(_result_with_screenshot(ToolResult(NoneVal, NoneVal, NoneVal),
                                          shot_ok),
                  <<"moveTo", "mouseDown", "moveTo", "mouseUp">>)

cursor_position == Returned(ToolResult("X=0,Y=0", NoneVal, NoneVal), <<>>)

ClickActions ==
    {"left_click", "right_click", "middle_click", "double_click", "triple_click"}

\* MacTool.__call__(**inputs): `action` is a required parameter; an action that
\* no branch handles falls off the end of the coroutine, which returns None.
MacToolCall(inputs, shot_ok) ==
    IF "action" \notin DOMAIN inputs THEN Raised("TypeError")
    ELSE LET action == inputs.action
             text == Get(inputs, "text", NoneVal)
             start_coordinate == Get(inputs, "start_coordinate", NoneVal)
             coordinate == Get(inputs, "coordinate", NoneVal)
         IN IF action = "screenshot" THEN Returned(screenshot(shot_ok), <<>>)
            ELSE IF action = "key" THEN key(text, shot_ok)
            ELSE IF action = "mouse_move" THEN mouse_move(text, coordinate, shot_ok)
            ELSE IF action \in ClickActions
            THEN click(action, text, coordinate, shot_ok)
            ELSE IF action = "left_click_drag"
            THEN left_click_drag(text, start_coordinate, coordinate, shot_ok)
            ELSE IF action = "cursor_position" THEN cursor_position
            ELSE ReturnedNone

-----------------------------------------------------------------------------
(* BashSession (shopping/tools/bash.py), seen from the driver: one child    *)
(* process, the number of processes spawned so far and the shell's state.   *)

NoBash == [alive |-> FALSE, spawned |-> 0, cwd |-> "none"]

\* _start(): terminate the old child if any, spawn a fresh one.
_start(b) == [alive |-> TRUE, spawned |-> b.spawned + 1, cwd |-> "start"]

\* BashSession(): the constructor calls _start().
BashSession == _start(NoBash)

\* execute(command): restart a missing or exited child, run the command in it.
BashExecute(b, command) ==
    LET live == IF ~b.alive THEN _start(b) ELSE b IN
    IF command = "cd /tmp" THEN [output |-> "", bash |-> [live EXCEPT !.cwd = "/tmp"]]
    ELSE IF command = "echo hi" THEN [output |-> "hi", bash |-> live]
    ELSE IF command = "pwd" THEN [output |-> live.cwd, bash |-> live]
    ELSE [output |-> "", bash |-> live]

BashRestart(b) == [output |-> "Bash session restarted.", bash |-> _start(b)]

\* close(): terminate the child, forget it.
BashClose(b) == IF b.alive THEN [b EXCEPT !.alive = FALSE] ELSE b

-----------------------------------------------------------------------------
(* TextEditor (shopping/tools/text_editor.py) on one path; the file content *)
(* is a sequence of tokens and old_str / new_str are single tokens.         *)

NoFile == [exists |-> FALSE, content |-> <<>>]

Occurrences(content, tok) == Len(SelectSeq(content, LAMBDA c : c = tok))

RECURSIVE ReplaceFirst(_, _, _)
ReplaceFirst(content, old, new) ==
    IF content = <<>> THEN <<>>
    ELSE IF Head(content) = old THEN <<new>> \o Tail(content)
    ELSE <<Head(content)>> \o ReplaceFirst(Tail(content), old, new)

_str_replace(f, path, old_str, new_str) ==
    IF ~f.exists THEN [output |-> "Error: File not found: " \o path, files |-> f]
    ELSE LET count == Occurrences(f.content, old_str) IN
         IF count = 0
         THEN [output |-> "Error: No match found for replacement. Please check your text and try again.",
               files |-> f]
         ELSE IF count > 1
         THEN [output |-> "Error: Found " \o ToString(count)
                              \o " matches for replacement text. Please provide more context to make a unique match.",
               files |-> f]
         ELSE [output |-> "Successfully replaced text at exactly one location.",
               files |-> [f EXCEPT !.content = ReplaceFirst(f.content, old_str, new_str)]]

_create(f, path, file_text) ==
    IF f.exists THEN [output |-> "Error: File already exists: " \o path, files |-> f]
    ELSE [output |-> "Successfully created file " \o path,
          files |-> [exists |-> TRUE, content |-> file_text]]

\* TextEditor.execute(command, **params); view and insert are not modelled.
EditorExecute(f, command, params) ==
    IF command = "str_replace"
    THEN _str_replace(f, Get(params, "path", ""), Get(params, "old_str", ""),
                      Get(params, "new_str", ""))
    ELSE IF command = "create"
    THEN _create(f, Get(params, "path", ""), Get(params, "file_text", <<>>))
    ELSE [output |-> "Error: Unknown command '" \o command \o "'", files |-> f]

-----------------------------------------------------------------------------
(* TextEditor._str_replace character by character: a file is the sequence   *)
(* of the characters stored on disk, old_str and new_str are sequences of    *)
(* characters.                                                               *)

LF == "\n"
CR == "\r"

AbsentFile == [exists |-> FALSE, content |-> <<>>]
StoredFile(chars) == [exists |-> TRUE, content |-> chars]

\* Path.read_text(): text mode with universal newlines, "\r\n" and "\r" are
\* read as "\n".
RECURSIVE read_text(_)
read_text(stored) ==
    IF stored = <<>> THEN <<>>
    ELSE IF Head(stored) = CR
    THEN IF Len(stored) >= 2 /\ stored[2] = LF
         THEN <<LF>> \o read_text(Tail(Tail(stored)))
         ELSE <<LF>> \o read_text(Tail(stored))
    ELSE <<Head(stored)>> \o read_text(Tail(stored))

\* os.linesep where the tool runs (macOS)
linesep == <<LF>>

\* Path.write_text(): text mode, "\n" is written as os.linesep.
RECURSIVE write_text(_)
write_text(text) ==
    IF text = <<>> THEN <<>>
    ELSE (IF Head(text) = LF THEN linesep ELSE <<Head(text)>>) \o write_text(Tail(text))

StartsWith(text, prefix) ==
    Len(text) >= Len(prefix) /\ SubSeq(text, 1, Len(prefix)) = prefix

Drop(text, n) == SubSeq(text, n + 1, Len(text))

\* str.count(sub): the number of non-overlapping occurrences, found from the
\* left; the empty string is counted once at each of the len + 1 positions.
RECURSIVE count(_, _)
count(text, sub) ==
    IF sub = <<>> THEN Len(text) + 1
    ELSE IF Len(text) < Len(sub) THEN 0
    ELSE IF StartsWith(text, sub) THEN 1 + count(Drop(text, Len(sub)), sub)
    ELSE count(Tail(text), sub)

\* str.replace(old, new, 1): the leftmost occurrence is replaced.
RECURSIVE replace(_, _, _)
replace(text, old, new) ==
    IF StartsWith(text, old) THEN new \o Drop(text, Len(old))
    ELSE IF text = <<>> THEN <<>>
    ELSE <<Head(text)>> \o replace(Tail(text), old, new)

FoundMatches(n) ==
    "Error: Found " \o ToString(n)
        \o " matches for replacement text. Please provide more context to make a unique match."

\* TextEditor._str_replace(path, old_str, new_str) on the file at path
StrReplace(f, path, old_str, new_str) ==
    IF ~f.exists THEN [output |-> "Error: File not found: " \o path, file |-> f]
    ELSE LET content == read_text(f.content)
             n == count(content, old_str)
         IN IF n = 0
            THEN [output |-> "Error: No match found for replacement. Please check your text and try again.",
                  file |-> f]
            ELSE IF n > 1
            THEN [output |-> FoundMatches(n), file |-> f]
            ELSE [output |-> "Successfully replaced text at exactly one location.",
                  file |-> StoredFile(write_text(replace(content, old_str, new_str)))]

-----------------------------------------------------------------------------
(* _dispatch_tool (shopping/agent.py) and the direct call of mac/loop.py.   *)
(* The outcome carries what the call returned and the executors' new state. *)

Outcome(ret, d, b, f, invoked) ==
    [ret |-> ret, display |-> d, bash |-> b, files |-> f, invoked |-> invoked]

ActsOf(ret) == IF ret.kind = "result" THEN ret.acts ELSE <<>>

\* The only point where a tool call yields to the event loop is
\* `await asyncio.sleep(SCREENSHOT_DELAY)` of _result_with_screenshot, reached
\* exactly by the calls that acted on the display.
Suspends(ret) == ret.kind = "result" /\ ret.acts # <<>>

ComputerOutcome(inputs, shot_ok) ==
    LET ret == MacToolCall(inputs, shot_ok) IN
    Outcome(ret, display \o ActsOf(ret), bash, files, "computer")

\* Faulty variant: the final else falls through to the shell
UnknownToolRunsBash(tool_name, inputs, shot_ok) ==
    LET r == BashExecute(bash, tool_name) IN
    Outcome(Returned(ToolResult(r.output, NoneVal, NoneVal), <<>>),
            display, r.bash, files, "bash")

\* else: return ToolResult(error=f"Unknown tool: {tool_name}")
UnknownTool(tool_name, inputs, shot_ok) ==
    Outcome(Returned(ToolResult(NoneVal, "Unknown tool: " \o tool_name, NoneVal), <<>>),
            display, bash, files, "none")

_dispatch_tool(tool_name, inputs, shot_ok) ==
    IF tool_name = "computer" THEN ComputerOutcome(inputs, shot_ok)
    ELSE IF tool_name = "bash"
    THEN LET r == IF Get(inputs, "restart", FALSE)
                  THEN BashRestart(bash)
                  ELSE BashExecute(bash, Get(inputs, "command", ""))
         IN Outcome(Returned(ToolResult(r.output, NoneVal, NoneVal), <<>>),
                    display, r.bash, files, "bash")
    ELSE IF tool_name = "str_replace_based_edit_tool"
    THEN LET r == EditorExecute(files, Get(inputs, "command", ""), inputs)
         IN Outcome(Returned(ToolResult(r.output, NoneVal, NoneVal), <<>>),
                    display, bash, r.files, "editor")
    ELSE UnknownTool(tool_name, inputs, shot_ok)

\* mac/loop.py: result = await tool(**inputs), whatever the block's name.
AgentLoopToolCall(tool_name, inputs, shot_ok) == ComputerOutcome(inputs, shot_ok)

InvokeTool(tool_name, inputs, shot_ok) ==
    IF driver = "run" THEN _dispatch_tool(tool_name, inputs, shot_ok)
    ELSE AgentLoopToolCall(tool_name, inputs, shot_ok)

-----------------------------------------------------------------------------
(* The remote service: what one call of client.beta.messages.create may     *)
(* return.  Tool-use ids are issued by the service, unique per block.       *)

Responses ==
    { <<>>,
      <<RawText("done")>>,
      <<RawThinking("plan", "sig"), RawText(""), RawToolUse("computer", cScreenshot)>>,
      <<RawToolUse("computer", cKey), RawText("look"), RawToolUse("computer", cClick)>>,
      <<RawToolUse("computer", cKeyNoText), RawToolUse("web_search", uQuery)>>,
      <<RawToolUse("computer", cMoveOob), RawToolUse("computer", cBadKey)>>,
      <<RawToolUse("computer", cType)>>,
      <<RawToolUse("computer", cNoAction)>>,
      <<RawToolUse("bash", bEcho), RawToolUse("str_replace_based_edit_tool", eCreate)>>,
      <<RawToolUse("bash", bCd), RawOther,
        RawToolUse("str_replace_based_edit_tool", eReplaceA)>>,
      <<RawToolUse("str_replace_based_edit_tool", eReplaceB), RawToolUse("bash", bRestart)>> }

\* The response to the n-th call, its k-th block carrying the id <<n, k>>.
IssueIds(content, n) ==
    [k \in 1..Len(content) |->
        IF content[k].type = "tool_use" THEN [content[k] EXCEPT !.id = <<n, k>>]
        ELSE content[k]]

-----------------------------------------------------------------------------
(* The driver loop: run (shopping/agent.py) and agent_loop (mac/loop.py)    *)

Terminated == {"completed", "exhausted", "interrupted", "aborted"}

PromptTurn == [role |-> "user", content |-> StrContent("prompt")]
AssistantTurn(blocks) == [role |-> "assistant", content |-> ListContent(blocks)]
UserTurn(blocks) == [role |-> "user", content |-> ListContent(blocks)]

\* Faulty variant: the shell is left as it is when the loop is left.
FinallyLeavesShell(b) == b

\* finally: bash.close() -- only run owns a BashSession.
Finally(b) == IF driver = "run" THEN BashClose(b) ELSE b

\* Faulty variant: the countdown starts one iteration late
BudgetMsgStrict(iter, max) ==
    LET remaining == max - (iter + 1) IN
    IF remaining < (max \div 5)
    THEN "[" \o ToString(remaining)
             \o " iterations remaining. Write your results now and stop browsing.]"
    ELSE "[Iteration " \o ToString(iter + 1) \o "/" \o ToString(max) \o " spent]"

\* remaining = max_iterations - (i + 1); int(max_iterations * 0.2)
BudgetMsg(iter, max) ==
    LET remaining == max - (iter + 1) IN
    IF remaining <= (max \div 5)
    THEN "[" \o ToString(remaining)
             \o " iterations remaining. Write your results now and stop browsing.]"
    ELSE "[Iteration " \o ToString(iter + 1) \o "/" \o ToString(max) \o " spent]"

RECURSIVE Reverse(_)
Reverse(q) == IF q = <<>> THEN <<>> ELSE Append(Reverse(Tail(q)), Head(q))

\* Faulty variant: the results are collected newest first
UserContentReversed(results, iter, max) ==
    IF driver = "run" THEN Append(Reverse(results), TextEntry(BudgetMsg(iter, max)))
    ELSE Reverse(results)

\* What is appended to messages as the user turn closing an iteration.
UserContent(results, iter, max) ==
    IF driver = "run" THEN Append(results, TextEntry(BudgetMsg(iter, max)))
    ELSE results

\* Faulty variant: pruning drops the oldest turn that holds an image.
PruneStepDropsTurn(msgs, keep) ==
    IF keep # 0 /\ CountImages(msgs) > keep
    THEN LET k == CHOOSE t \in 1..Len(msgs) :
                     /\ ImagesInTurn(msgs[t]) > 0
                     /\ \A u \in 1..(t - 1) : ImagesInTurn(msgs[u]) = 0
         IN SubSeq(msgs, 1, k - 1) \o SubSeq(msgs, k + 1, Len(msgs))
    ELSE msgs

\* if only_n_most_recent_images: _prune_images(messages, only_n_most_recent_images)
PruneStep(msgs, keep) == IF keep # 0 THEN _prune_images(msgs, keep) ELSE msgs

DriverInit ==
    /\ driver \in {"run", "agent_loop"}
    /\ max_iterations \in 1..MaxIter
    /\ keep_n \in 0..MaxKeep
    /\ messages = <<PromptTurn>>
    /\ pc = "loop"
    /\ i = 0
    /\ response = <<>>
    /\ assistant_content = <<>>
    /\ bi = 1
    /\ tool_results = <<>>
    /\ api_calls = 0
    /\ transmitted = <<>>
    /\ abort_cause = "none"
    /\ cancel_requested = FALSE
    /\ calls = <<>>
    /\ display = <<>>
    /\ bash = IF driver = "run" THEN BashSession ELSE NoBash
    /\ files = NoFile

\* Faulty variant: the conversation is sent as it is, nothing is pruned.
RequestWithoutPruning ==
    /\ pc = "loop"
    /\ i < max_iterations
    /\ transmitted' = messages
    /\ api_calls' = api_calls + 1
    /\ pc' = "create"
    /\ UNCHANGED <<editor_vars, prune_vars, result_vars, shell_vars, driver, response,
                   max_iterations, keep_n, cancel_requested, messages, i, assistant_content,
                   bi, tool_results, abort_cause, calls, display, bash, files>>

\* for i in range(max_iterations): prune, then enter messages.create(...)
Request ==
    /\ pc = "loop"
    /\ i < max_iterations
    /\ messages' = PruneStep(messages, keep_n)
    /\ transmitted' = messages'
    /\ api_calls' = api_calls + 1
    /\ pc' = "create"
    /\ UNCHANGED <<editor_vars, prune_vars, result_vars, shell_vars, driver, response, max_iterations, keep_n, cancel_requested, i, assistant_content, bi,
                   tool_results, abort_cause, calls, display, bash, files>>

\* Faulty variant: the assistant turn is appended as received and as converted.
RespondAppendsTwice ==
    /\ pc = "create"
    /\ \E content \in Responses :
          /\ response' = IssueIds(content, api_calls)
          /\ assistant_content' = _response_to_params(response')
          /\ messages' = messages \o <<AssistantTurn(response'),
                                       AssistantTurn(assistant_content')>>
    /\ tool_results' = <<>>
    /\ bi' = 1
    /\ pc' = "blocks"
    /\ UNCHANGED <<editor_vars, prune_vars, result_vars, shell_vars, driver, max_iterations,
                   keep_n, cancel_requested, i, api_calls, transmitted, abort_cause, calls,
                   display, bash, files>>

\* messages.create returns: convert and append the assistant turn.
Respond ==
    /\ pc = "create"
    /\ \E content \in Responses :
          /\ response' = IssueIds(content, api_calls)
          /\ assistant_content' = _response_to_params(response')
          /\ messages' = Append(messages, AssistantTurn(assistant_content'))
    /\ tool_results' = <<>>
    /\ bi' = 1
    /\ pc' = "blocks"
    /\ UNCHANGED <<editor_vars, prune_vars, result_vars, shell_vars, driver, max_iterations, keep_n, cancel_requested, i, api_calls, transmitted,
                   abort_cause, calls, display, bash, files>>

\* Faulty variant: a failed remote call is tried again in the next pass
RemoteFailRetried ==
    /\ pc = "create"
    /\ pc' = "loop"
    /\ abort_cause' = "remote"
    /\ UNCHANGED <<editor_vars, prune_vars, result_vars, shell_vars, driver, response, max_iterations, keep_n, cancel_requested, messages, i,
                   assistant_content, bi, tool_results, api_calls, transmitted,
                   calls, display, bash, files>>

\* messages.create raises: nothing catches it, finally closes the shell.
RemoteFail ==
    /\ pc = "create"
    /\ pc' = "aborted"
    /\ abort_cause' = "remote"
    /\ bash' = Finally(bash)
    /\ UNCHANGED <<editor_vars, prune_vars, result_vars, shell_vars, driver, response, max_iterations, keep_n, cancel_requested, messages, i, assistant_content,
                   bi, tool_results, api_calls, transmitted, calls, display, files>>

\* One pass of `for block in assistant_content` over a block that is no tool_use.
SkipBlock ==
    /\ pc = "blocks"
    /\ bi <= Len(assistant_content)
    /\ ~IsToolUse(assistant_content[bi])
    /\ bi' = bi + 1
    /\ UNCHANGED <<editor_vars, prune_vars, result_vars, shell_vars, driver, response, max_iterations, keep_n, cancel_requested, messages, pc, i,
                   assistant_content, tool_results, api_calls, transmitted,
                   abort_cause, calls, display, bash, files>>

\* Faulty variant: the tool is started and the loop moves on to the next block
\* without waiting for its result.
ToolCallNotAwaited ==
    /\ pc = "blocks"
    /\ bi <= Len(assistant_content)
    /\ IsToolUse(assistant_content[bi])
    /\ \E shot_ok \in BOOLEAN :
        LET block == assistant_content[bi]
            o == InvokeTool(block.name, block.input, shot_ok)
        IN /\ display' = o.display
           /\ files' = o.files
           /\ bash' = o.bash
           /\ calls' = Append(calls, [id |-> block.id, executor |-> o.invoked])
    /\ bi' = bi + 1
    /\ UNCHANGED <<editor_vars, prune_vars, result_vars, shell_vars, driver, response, max_iterations, keep_n,
                   cancel_requested, messages, pc, i, assistant_content, tool_results,
                   abort_cause, api_calls, transmitted>>

\* One pass over a tool_use block: dispatch, then result.error is read and the
\* tool_result block appended; an exception leaves the loop through finally.
\* A cancelled task gets CancelledError where the call suspends.
ToolCall ==
    /\ pc = "blocks"
    /\ bi <= Len(assistant_content)
    /\ IsToolUse(assistant_content[bi])
    /\ \E shot_ok \in BOOLEAN :
        LET block == assistant_content[bi]
            o == InvokeTool(block.name, block.input, shot_ok)
        IN /\ display' = o.display
           /\ files' = o.files
           /\ calls' = Append(calls, [id |-> block.id, executor |-> o.invoked])
           /\ IF o.ret.kind = "result" /\ ~(cancel_requested /\ Suspends(o.ret))
              THEN /\ tool_results' =
                          Append(tool_results, _make_tool_result(o.ret.result, block.id))
                   /\ bi' = bi + 1
                   /\ bash' = o.bash
                   /\ UNCHANGED <<pc, abort_cause>>
              ELSE /\ pc' = "aborted"
                   /\ abort_cause' = IF o.ret.kind = "result" THEN "interrupt" ELSE "tool"
                   /\ bash' = Finally(o.bash)
                   /\ UNCHANGED <<tool_results, bi>>
    /\ UNCHANGED <<editor_vars, prune_vars, result_vars, shell_vars, driver, response, max_iterations, keep_n, cancel_requested, messages, i, assistant_content,
                   api_calls, transmitted>>

\* Faulty variant: a completed run closes the conversation with a user turn.
CompleteAddsClosingTurn ==
    /\ pc = "blocks"
    /\ bi > Len(assistant_content)
    /\ tool_results = <<>>
    /\ pc' = "completed"
    /\ messages' = Append(messages, UserTurn(<<TextEntry("done")>>))
    /\ bash' = Finally(bash)
    /\ UNCHANGED <<editor_vars, prune_vars, result_vars, shell_vars, driver, response, max_iterations, keep_n,
                   cancel_requested, i, assistant_content, bi, tool_results, api_calls,
                   transmitted, abort_cause, calls, display, files>>

\* if not tool_results: break / return messages
Complete ==
    /\ pc = "blocks"
    /\ bi > Len(assistant_content)
    /\ tool_results = <<>>
    /\ pc' = "completed"
    /\ bash' = Finally(bash)
    /\ UNCHANGED <<editor_vars, prune_vars, result_vars, shell_vars, driver, response, max_iterations, keep_n, cancel_requested, messages, i, assistant_content,
                   bi, tool_results, api_calls, transmitted, abort_cause, calls,
                   display, files>>

\* messages.append({"role": "user", "content": tool_results}); next iteration
AppendResults ==
    /\ pc = "blocks"
    /\ bi > Len(assistant_content)
    /\ tool_results # <<>>
    /\ messages' = Append(messages, UserTurn(UserContent(tool_results, i, max_iterations)))
    /\ i' = i + 1
    /\ pc' = "loop"
    /\ UNCHANGED <<editor_vars, prune_vars, result_vars, shell_vars, driver, response, max_iterations, keep_n, cancel_requested, assistant_content, bi,
                   tool_results, api_calls, transmitted, abort_cause, calls,
                   display, bash, files>>

\* The for loop runs out: "Hit max iterations".
Exhaust ==
    /\ pc = "loop"
    /\ i >= max_iterations
    /\ pc' = "exhausted"
    /\ bash' = Finally(bash)
    /\ UNCHANGED <<editor_vars, prune_vars, result_vars, shell_vars, driver, response, max_iterations, keep_n, cancel_requested, messages, i, assistant_content,
                   bi, tool_results, api_calls, transmitted, abort_cause, calls,
                   display, files>>

\* SIGINT under asyncio.run(...): the handler cancels the main task and
\* returns; the coroutine goes on until it next suspends.
Cancel ==
    /\ pc \notin Terminated
    /\ ~cancel_requested
    /\ cancel_requested' = TRUE
    /\ UNCHANGED <<editor_vars, prune_vars, result_vars, shell_vars, driver, response, max_iterations, keep_n, messages, pc, i,
                   assistant_content, bi, tool_results, api_calls, transmitted,
                   abort_cause, calls, display, bash, files>>

\* KeyboardInterrupt raised in the coroutine (a second SIGINT, or a runner
\* without the handler): run catches it and returns messages; agent_loop lets
\* it propagate.
Interrupt ==
    /\ pc \notin Terminated
    /\ IF driver = "run"
       THEN pc' = "interrupted" /\ UNCHANGED abort_cause
       ELSE pc' = "aborted" /\ abort_cause' = "interrupt"
    /\ bash' = Finally(bash)
    /\ UNCHANGED <<editor_vars, prune_vars, result_vars, shell_vars, driver, response, max_iterations, keep_n, cancel_requested, messages, i, assistant_content,
                   bi, tool_results, api_calls, transmitted, calls, display, files>>

-----------------------------------------------------------------------------
(* BashSession (shopping/tools/bash.py) in detail: the child processes, their *)
(* pipes, the reader threads, the queues and the caller of execute.  A line  *)
(* is its text without the newline; a text of several lines is the sequence  *)
(* of its lines.  Time is counted in ticks.                                  *)

\* One instruction of the text a child reads from its stdin.
Instr(op, arg, n) == [op |-> op, arg |-> arg, n |-> n]

\* A sleep that outlasts one q.get timeout and ends within the next.
SleepTicks == TimeoutTicks + 1

\* The clock of a call is followed this far and no further.
MaxElapsed == 2 * TimeoutTicks + 1

\* What bash does for each command of the model.
Program(command) ==
    CASE command = "echo hello" -> <<Instr("out", "hello", 0)>>
      [] command = "export FOO=bar" -> <<Instr("export", "", 0)>>
      [] command = "echo ${FOO:-empty}" -> <<Instr("echofoo", "", 0)>>
      [] command = "cd /tmp" -> <<Instr("cd", "", 0)>>
      [] command = "pwd" -> <<Instr("pwd", "", 0)>>
      [] command = "printf 'no newline here'" ->
             <<Instr("outpart", "no newline here", 0)>>
      [] command = "echo out; echo oops >&2" ->
             <<Instr("out", "out", 0), Instr("err", "oops", 0)>>
      [] command = "echo line1; echo line2; echo line3" ->
             <<Instr("out", "line1", 0), Instr("out", "line2", 0),
               Instr("out", "line3", 0)>>
      [] command = "ls /nonexistent 2>&1; echo done" ->
             <<Instr("fail", "ls: cannot access '/nonexistent'", 0),
               Instr("out", "done", 0)>>
      [] command = "sleep 45; echo late; echo oops >&2" ->
             <<Instr("wait", "", SleepTicks), Instr("out", "late", 0),
               Instr("err", "oops", 0)>>
      [] command = "while sleep 15; do echo tick; echo tick >&2; done" ->
             <<Instr("loop", "tick", 1)>>
      [] command = "exit" -> <<Instr("exit", "", 0)>>
      [] command = "read a; read b" -> <<Instr("read2", "", 0)>>
      [] OTHER -> <<>>

Commands ==
    { "echo hello", "export FOO=bar", "echo ${FOO:-empty}", "cd /tmp", "pwd",
      "printf 'no newline here'", "echo out; echo oops >&2",
      "echo line1; echo line2; echo line3", "ls /nonexistent 2>&1; echo done",
      "sleep 45; echo late; echo oops >&2", "while sleep 15; do echo tick; echo tick >&2; done",
      "exit", "read a; read b" }

\* sentinel = f"__SENTINEL_{uuid.uuid4().hex}__": one fresh text per call.
Sentinel(n) == "__SENTINEL_" \o ToString(n) \o "__"

\* full_command: the command, then a newline and the sentinel on stdout, then a
\* newline and the sentinel on stderr.
FullCommand(command, sentinel) ==
    Program(command) \o <<Instr("nl", "", 0), Instr("out", sentinel, 0),
                          Instr("errnl", "", 0), Instr("err", sentinel, 0)>>

\* A child just spawned by Popen(["/bin/bash", "--norc", "--noprofile"]) with
\* the two queues and readers made for it.
\* `origin`, `lost`, `sent` and `timed_out` record history: which call spawned
\* the child, which state-setting commands the child before it had been sent,
\* which ones it has been sent itself, whether a call on it hit a timeout.
NewChild(origin, lost) ==
    [alive |-> TRUE, env |-> "unset", cwd |-> "/home", status |-> 0, stdin |-> <<>>,
     outpart |-> "", outpipe |-> <<>>, errpipe |-> <<>>,
     outq |-> <<>>, errq |-> <<>>,
     origin |-> origin, lost |-> lost, sent |-> {}, timed_out |-> FALSE]

StateSetting == {"export FOO=bar", "cd /tmp"}

\* Faulty variant: the process is signalled but neither ends nor is waited for.
KillNotReaped(ch) == [ch EXCEPT !.stdin = <<>>]

\* The process ends: its unread input and its shell state are gone, an
\* unterminated last line reaches the pipe as it is.
Kill(ch) ==
    [ch EXCEPT !.alive = FALSE, !.stdin = <<>>, !.outpart = "",
               !.env = "unset", !.cwd = "/home", !.status = 0,
               !.outpipe = IF ch.outpart # "" THEN Append(@, ch.outpart) ELSE @]

\* Faulty variant: a shell that exits at the first failing command (set -e).
ExecErrexit(ch) ==
    LET ins == Head(ch.stdin)
        c == [ch EXCEPT !.stdin = Tail(@), !.status = 0]
        say(text) == [c EXCEPT !.outpipe = Append(@, ch.outpart \o text),
                               !.outpart = ""]
    IN CASE ins.op = "out" -> say(ins.arg)
         [] ins.op = "outpart" -> [c EXCEPT !.outpart = @ \o ins.arg]
         [] ins.op = "nl" -> say("")
         [] ins.op = "err" -> [c EXCEPT !.errpipe = Append(@, ins.arg)]
         [] ins.op = "errnl" -> [c EXCEPT !.errpipe = Append(@, "")]
         [] ins.op = "export" -> [c EXCEPT !.env = "bar"]
         [] ins.op = "echofoo" -> say(IF ch.env = "bar" THEN "bar" ELSE "empty")
         [] ins.op = "cd" -> [c EXCEPT !.cwd = "/tmp"]
         [] ins.op = "pwd" -> say(ch.cwd)
         [] ins.op = "fail" -> Kill(say(ins.arg))
         [] ins.op = "loop" ->
                [say(ins.arg) EXCEPT !.errpipe = Append(@, ins.arg),
                                     !.stdin = <<Instr("loop", ins.arg, 1)>> \o @]
         [] ins.op = "exit" -> Kill(ch)
         [] ins.op = "read2" -> [c EXCEPT !.stdin = SubSeq(@, 3, Len(@))]
         [] OTHER -> c

\* One instruction executed by the shell.  `status` is $?: a failing command
\* prints its message and leaves a nonzero status, and the shell goes on.  The
\* commands of the shell read the same stdin as the shell: `read a; read b`
\* takes the next two lines that were written to it.
Exec(ch) ==
    LET ins == Head(ch.stdin)
        c == [ch EXCEPT !.stdin = Tail(@), !.status = 0]
        say(text) == [c EXCEPT !.outpipe = Append(@, ch.outpart \o text),
                               !.outpart = ""]
    IN CASE ins.op = "out" -> say(ins.arg)
         [] ins.op = "outpart" -> [c EXCEPT !.outpart = @ \o ins.arg]
         [] ins.op = "nl" -> say("")
         [] ins.op = "err" -> [c EXCEPT !.errpipe = Append(@, ins.arg)]
         [] ins.op = "errnl" -> [c EXCEPT !.errpipe = Append(@, "")]
         [] ins.op = "export" -> [c EXCEPT !.env = "bar"]
         [] ins.op = "echofoo" -> say(IF ch.env = "bar" THEN "bar" ELSE "empty")
         [] ins.op = "cd" -> [c EXCEPT !.cwd = "/tmp"]
         [] ins.op = "pwd" -> say(ch.cwd)
         [] ins.op = "fail" -> [say(ins.arg) EXCEPT !.status = 2]
         [] ins.op = "loop" ->
                [say(ins.arg) EXCEPT !.errpipe = Append(@, ins.arg),
                                     !.stdin = <<Instr("loop", ins.arg, 1)>> \o @]
         [] ins.op = "exit" -> Kill(ch)
         [] ins.op = "read2" -> [c EXCEPT !.stdin = SubSeq(@, 3, Len(@))]
         [] OTHER -> c

\* The shell is inside a sleep that has time left.
Sleeping(ch) ==
    ch.alive /\ ch.stdin # <<>> /\ Head(ch.stdin).n > 0

CanStep(ch) == ch.alive /\ ch.stdin # <<>> /\ ~Sleeping(ch)

\* The shell runs its input up to the next sleep, its exit or the end of what
\* it has been sent.
RECURSIVE Run(_)
Run(ch) == IF CanStep(ch) THEN Run(Exec(ch)) ELSE ch

Pids == 1..Len(children)

\* Faulty variant: the new shell takes over the variables and the directory
\* of the one it replaces.
SessionStartKeepsState(proc, chs, origin) ==
    LET old == IF proc # 0 THEN [chs EXCEPT ![proc] = Kill(@)] ELSE chs
        lost == IF proc # 0 THEN chs[proc].sent ELSE {}
        new == NewChild(origin, lost)
    IN [process |-> Len(chs) + 1,
        children |-> Append(old, IF proc # 0
                                 THEN [new EXCEPT !.env = chs[proc].env,
                                                  !.cwd = chs[proc].cwd]
                                 ELSE new)]

\* _start(): terminate and reap the old child if there is one, spawn a new
\* child, make new queues, start readers on the new pipes.
SessionStart(proc, chs, origin) ==
    LET old == IF proc # 0 THEN [chs EXCEPT ![proc] = Kill(@)] ELSE chs
        lost == IF proc # 0 THEN chs[proc].sent ELSE {}
    IN [process |-> Len(chs) + 1, children |-> Append(old, NewChild(origin, lost))]

\* str.strip() of a text: blank lines at both ends go (the lines of the model
\* carry no blanks of their own).
RECURSIVE StripLeft(_)
StripLeft(lines) ==
    IF lines # <<>> /\ Head(lines) = "" THEN StripLeft(Tail(lines)) ELSE lines

Strip(lines) == Reverse(StripLeft(Reverse(StripLeft(lines))))

NoCall ==
    [op |-> "none", command |-> "", pid |-> 0, sent |-> {}, stale |-> FALSE,
     spawned |-> FALSE]

\* A call on the session: the child it goes to and that child's history.
Call(op, command, pid, chs, spawned) ==
    [op |-> op, command |-> command, pid |-> pid,
     sent |-> IF pid = 0 THEN {} ELSE chs[pid].sent,
     stale |-> IF pid = 0 THEN FALSE ELSE chs[pid].timed_out,
     spawned |-> spawned]

\* A call that has returned: what it returned, when a q.get first timed out
\* (0: none did) and what was on the queues then, when it returned and what
\* it left unread of the child's standard output.
Done(call, result, expired, elapsed, snapshot, left) ==
    [call |-> call, result |-> result, expired |-> expired, elapsed |-> elapsed,
     snapshot |-> snapshot, left |-> left]

ShellInit ==
    /\ process = 1
    /\ children = <<NewChild("init", {})>>
    /\ s_pc = "idle"
    /\ s_call = NoCall
    /\ s_sentinel = ""
    /\ s_stdout = <<>>
    /\ s_stderr = <<>>
    /\ s_waited = 0
    /\ s_elapsed = 0
    /\ s_expired = 0
    /\ s_snapshot = <<>>
    /\ s_calls = 0
    /\ s_last = Done(NoCall, <<>>, 0, 0, <<>>, <<>>)

\* Faulty variant: only the missing handle is noticed, not the exited child.
NeedsStartNoPoll(proc, chs) == proc = 0

\* if self._process is None or self._process.poll() is not None
NeedsStart(proc, chs) == proc = 0 \/ ~chs[proc].alive

\* Faulty variant: execute writes to the child it has and fails without one.
ExecuteNoAutoStart ==
    /\ s_pc = "idle"
    /\ s_calls < MaxCalls
    /\ ~NeedsStart(process, children)
    /\ \E command \in Commands :
        LET sentinel == Sentinel(s_calls + 1)
        IN /\ children' = [children EXCEPT
                 ![process].stdin = @ \o FullCommand(command, sentinel),
                 ![process].sent = @ \cup ({command} \cap StateSetting)]
           /\ s_call' = Call("execute", command, process, children, FALSE)
           /\ s_sentinel' = sentinel
    /\ s_pc' = "read_out"
    /\ s_stdout' = <<>>
    /\ s_stderr' = <<>>
    /\ s_waited' = 0
    /\ s_elapsed' = 0
    /\ s_expired' = 0
    /\ s_snapshot' = <<>>
    /\ s_calls' = s_calls + 1
    /\ UNCHANGED <<editor_vars, process, s_last, driver_vars, prune_vars, result_vars>>

\* execute(command) up to the write on stdin.
Execute ==
    /\ s_pc = "idle"
    /\ s_calls < MaxCalls
    /\ \E command \in Commands :
        LET dead == NeedsStart(process, children)
            st == IF dead THEN SessionStart(process, children, "execute")
                  ELSE [process |-> process, children |-> children]
            sentinel == Sentinel(s_calls + 1)
        IN /\ process' = st.process
           /\ children' = [st.children EXCEPT
                 ![st.process].stdin = @ \o FullCommand(command, sentinel),
                 ![st.process].sent = @ \cup ({command} \cap StateSetting)]
           /\ s_call' = Call("execute", command, st.process, st.children, dead)
           /\ s_sentinel' = sentinel
    /\ s_pc' = "read_out"
    /\ s_stdout' = <<>>
    /\ s_stderr' = <<>>
    /\ s_waited' = 0
    /\ s_elapsed' = 0
    /\ s_expired' = 0
    /\ s_snapshot' = <<>>
    /\ s_calls' = s_calls + 1
    /\ UNCHANGED <<editor_vars, s_last, driver_vars, prune_vars, result_vars>>

\* Faulty variant: the marker of any call ends the reading.
IsMarkerOfAnyCall(line, sentinel) == line \in {Sentinel(n) : n \in 1..MaxCalls}

\* if line.strip() == sentinel
IsMarker(line, sentinel) == line = sentinel

\* _read_queue(self._output_queue, ...): q.get returns a line.
ReadOutput ==
    /\ s_pc = "read_out"
    /\ children[process].outq # <<>>
    /\ LET line == Head(children[process].outq) IN
          IF IsMarker(line, s_sentinel)
          THEN s_pc' = "read_err" /\ UNCHANGED s_stdout
          ELSE s_stdout' = Append(s_stdout, line) /\ UNCHANGED s_pc
    /\ children' = [children EXCEPT ![process].outq = Tail(@)]
    /\ s_waited' = 0
    /\ UNCHANGED <<editor_vars, process, s_call, s_sentinel, s_stderr, s_elapsed, s_expired,
                   s_snapshot, s_calls, s_last, driver_vars, prune_vars, result_vars>>

\* _read_queue(self._output_queue, ...): q.get raises queue.Empty.
OutputTimeout ==
    /\ s_pc = "read_out"
    /\ children[process].outq = <<>>
    /\ s_waited = TimeoutTicks
    /\ s_pc' = "read_err"
    /\ s_waited' = 0
    /\ s_expired' = s_elapsed
    /\ s_snapshot' = s_stdout \o children[process].errq
    /\ children' = [children EXCEPT ![process].timed_out = TRUE]
    /\ UNCHANGED <<editor_vars, process, s_call, s_sentinel, s_stdout, s_stderr, s_elapsed,
                   s_calls, s_last, driver_vars, prune_vars, result_vars>>

\* result = stdout; if stderr: result = result + stderr; return result.strip()
ExecuteResult(stdout, stderr) == Strip(stdout \o stderr)

\* _read_queue(self._error_queue, ...): q.get returns a line; on the sentinel
\* execute returns.
ReadError ==
    /\ s_pc = "read_err"
    /\ children[process].errq # <<>>
    /\ LET line == Head(children[process].errq) IN
          IF IsMarker(line, s_sentinel)
          THEN /\ s_pc' = "idle"
               /\ s_last' = Done(s_call, ExecuteResult(s_stdout, s_stderr),
                                 s_expired, s_elapsed, s_snapshot,
                                 children[process].outq \o children[process].outpipe)
               /\ UNCHANGED s_stderr
          ELSE s_stderr' = Append(s_stderr, line) /\ UNCHANGED <<s_pc, s_last>>
    /\ children' = [children EXCEPT ![process].errq = Tail(@)]
    /\ s_waited' = 0
    /\ UNCHANGED <<editor_vars, process, s_call, s_sentinel, s_stdout, s_elapsed, s_expired,
                   s_snapshot, s_calls, driver_vars, prune_vars, result_vars>>

\* _read_queue(self._error_queue, ...): q.get raises queue.Empty; execute
\* returns what it has.
ErrorTimeout ==
    /\ s_pc = "read_err"
    /\ children[process].errq = <<>>
    /\ s_waited = TimeoutTicks
    /\ s_pc' = "idle"
    /\ s_waited' = 0
    /\ s_expired' = IF s_expired = 0 THEN s_elapsed ELSE s_expired
    /\ children' = [children EXCEPT ![process].timed_out = TRUE]
    /\ s_snapshot' = IF s_expired = 0 THEN s_stdout \o s_stderr ELSE s_snapshot
    /\ s_last' = Done(s_call, ExecuteResult(s_stdout, s_stderr), s_expired', s_elapsed,
                      s_snapshot',
                      children[process].outq \o children[process].outpipe)
    /\ UNCHANGED <<editor_vars, process, s_call, s_sentinel, s_stdout, s_stderr, s_elapsed,
                   s_calls, driver_vars, prune_vars, result_vars>>

\* restart()
Restart ==
    /\ s_pc = "idle"
    /\ s_calls < MaxCalls
    /\ LET st == SessionStart(process, children, "restart") IN
          /\ process' = st.process
          /\ children' = st.children
          /\ s_last' = Done(Call("restart", "", st.process, st.children, TRUE),
                            <<"Bash session restarted.">>, 0, 0, <<>>, <<>>)
    /\ s_calls' = s_calls + 1
    /\ UNCHANGED <<editor_vars, s_pc, s_call, s_sentinel, s_stdout, s_stderr, s_waited, s_elapsed,
                   s_expired, s_snapshot, driver_vars, prune_vars, result_vars>>

\* Faulty variant: close() without the test for None, failing when there is
\* no child to terminate.
CloseUnguarded ==
    /\ s_pc = "idle"
    /\ s_calls < MaxCalls
    /\ process # 0
    /\ children' = [children EXCEPT ![process] = Kill(@)]
    /\ process' = 0
    /\ s_last' = Done(Call("close", "", process, children, FALSE), <<>>, 0, 0, <<>>, <<>>)
    /\ s_calls' = s_calls + 1
    /\ UNCHANGED <<editor_vars, s_pc, s_call, s_sentinel, s_stdout, s_stderr, s_waited, s_elapsed,
                   s_expired, s_snapshot, driver_vars, prune_vars, result_vars>>

\* close()
Close ==
    /\ s_pc = "idle"
    /\ s_calls < MaxCalls
    /\ IF process # 0
       THEN children' = [children EXCEPT ![process] = Kill(@)] /\ process' = 0
       ELSE UNCHANGED <<process, children>>
    /\ s_last' = Done(Call("close", "", process, children, FALSE), <<>>, 0, 0, <<>>, <<>>)
    /\ s_calls' = s_calls + 1
    /\ UNCHANGED <<editor_vars, s_pc, s_call, s_sentinel, s_stdout, s_stderr, s_waited, s_elapsed,
                   s_expired, s_snapshot, driver_vars, prune_vars, result_vars>>

\* Faulty variant: the reader hands the lines over newest first.
PutNewestFirst(q, lines) == q \o Reverse(lines)

\* for line in stream: q.put(line)
Put(q, lines) == q \o lines

\* queue.Queue(): maxsize 0, and "if maxsize is less than or equal to zero,
\* the queue size is infinite".
QueueMaxsize == 0

\* How many of the lines waiting in a pipe the reader can put on the queue
\* before q.put blocks.
Movable(q, pipe) ==
    IF QueueMaxsize <= 0 THEN Len(pipe) ELSE Min(Len(pipe), QueueMaxsize - Len(q))

\* A shell runs the instructions it has been sent.
ChildStep ==
    /\ \E c \in Pids :
          /\ CanStep(children[c])
          /\ children' = [children EXCEPT ![c] = Run(@)]
    /\ UNCHANGED <<editor_vars, process, s_pc, s_call, s_sentinel, s_stdout, s_stderr, s_waited,
                   s_elapsed, s_expired, s_snapshot, s_calls, s_last, driver_vars, prune_vars,
                   result_vars>>

\* Faulty variant: a reader puts its lines on the queue the session uses now,
\* not on the queue it was started with.
ReadStdoutSharedQueue ==
    /\ \E c \in Pids :
          /\ children[c].outpipe # <<>>
          /\ LET q == IF process = 0 THEN c ELSE process IN
             children' = [[children EXCEPT ![c].outpipe = <<>>]
                             EXCEPT ![q].outq = Put(@, children[c].outpipe)]
    /\ UNCHANGED <<editor_vars, process, s_pc, s_call, s_sentinel, s_stdout, s_stderr, s_waited,
                   s_elapsed, s_expired, s_snapshot, s_calls, s_last, driver_vars, prune_vars,
                   result_vars>>

\* _reader(stdout, q): for line in stream: q.put(line) -- the reader thread
\* of a child puts the lines that are in the pipe on the child's queue, in order.
ReadStdout ==
    /\ \E c \in Pids :
          /\ Movable(children[c].outq, children[c].outpipe) > 0
          /\ LET n == Movable(children[c].outq, children[c].outpipe) IN
             children' = [children EXCEPT
                            ![c].outq = Put(@, SubSeq(children[c].outpipe, 1, n)),
                            ![c].outpipe = SubSeq(@, n + 1, Len(@))]
    /\ UNCHANGED <<editor_vars, process, s_pc, s_call, s_sentinel, s_stdout, s_stderr, s_waited,
                   s_elapsed, s_expired, s_snapshot, s_calls, s_last, driver_vars, prune_vars,
                   result_vars>>

\* _reader(stderr, q): for line in stream: q.put(line), as for stdout.
ReadStderr ==
    /\ \E c \in Pids :
          /\ Movable(children[c].errq, children[c].errpipe) > 0
          /\ LET n == Movable(children[c].errq, children[c].errpipe) IN
             children' = [children EXCEPT
                            ![c].errq = Put(@, SubSeq(children[c].errpipe, 1, n)),
                            ![c].errpipe = SubSeq(@, n + 1, Len(@))]
    /\ UNCHANGED <<editor_vars, process, s_pc, s_call, s_sentinel, s_stdout, s_stderr, s_waited,
                   s_elapsed, s_expired, s_snapshot, s_calls, s_last, driver_vars, prune_vars,
                   result_vars>>

Reading == s_pc \in {"read_out", "read_err"}

\* The queue the caller is blocked on.
CurrentQueue ==
    IF s_pc = "read_out" THEN children[process].outq ELSE children[process].errq

\* Nothing can move without time passing: no shell has an instruction to run,
\* no reader has a line to hand over, the caller has nothing to take.
Quiet ==
    /\ \A c \in Pids : /\ ~CanStep(children[c])
                       /\ children[c].outpipe = <<>>
                       /\ children[c].errpipe = <<>>
    /\ Reading => CurrentQueue = <<>>

\* One tick of time: the blocked q.get waits on, the sleeping shells sleep on.
Tick ==
    /\ Quiet
    /\ Reading => s_waited < TimeoutTicks /\ s_elapsed < MaxElapsed
    /\ Reading \/ \E c \in Pids : Sleeping(children[c])
    /\ children' = [c \in Pids |->
                      IF Sleeping(children[c])
                      THEN [children[c] EXCEPT !.stdin[1].n = @ - 1]
                      ELSE children[c]]
    /\ IF Reading
       THEN s_waited' = s_waited + 1 /\ s_elapsed' = s_elapsed + 1
       ELSE UNCHANGED <<s_waited, s_elapsed>>
    /\ UNCHANGED <<editor_vars, process, s_pc, s_call, s_sentinel, s_stdout, s_stderr, s_expired,
                   s_snapshot, s_calls, s_last, driver_vars, prune_vars, result_vars>>

ShellNext ==
    \/ Execute
    \/ ReadOutput
    \/ OutputTimeout
    \/ ReadError
    \/ ErrorTimeout
    \/ Restart
    \/ Close
    \/ ChildStep
    \/ ReadStdout
    \/ ReadStderr
    \/ Tick

ShellOff ==
    /\ process = 0 /\ children = <<>> /\ s_pc = "off" /\ s_call = NoCall
    /\ s_sentinel = "" /\ s_stdout = <<>> /\ s_stderr = <<>> /\ s_waited = 0
    /\ s_elapsed = 0 /\ s_expired = 0 /\ s_snapshot = <<>> /\ s_calls = 0
    /\ s_last = Done(NoCall, <<>>, 0, 0, <<>>, <<>>)

-----------------------------------------------------------------------------
(* The specifications share the variables; the parts a specification  *)
(* does not use stay at these values.                                       *)

DriverOff ==
    /\ driver = "off" /\ max_iterations = 0 /\ keep_n = 0 /\ messages = <<>>
    /\ pc = "off" /\ i = 0 /\ response = <<>> /\ assistant_content = <<>> /\ bi = 1
    /\ tool_results = <<>> /\ api_calls = 0 /\ transmitted = <<>>
    /\ abort_cause = "none" /\ cancel_requested = FALSE
    /\ calls = <<>> /\ display = <<>>
    /\ bash = NoBash /\ files = NoFile

PruneOff ==
    /\ p_conv = <<>> /\ p_keep = 0 /\ p_out = <<>> /\ p_out2 = <<>> /\ p_phase = "off"

ResultOff ==
    /\ r_in = ToolResult(NoneVal, NoneVal, NoneVal) /\ r_id = <<0, 0>>
    /\ r_out = <<>> /\ r_phase = "off"

EditorOff ==
    /\ e_before = AbsentFile /\ e_file = AbsentFile /\ e_old_str = <<>>
    /\ e_new_str = <<>> /\ e_out = "" /\ e_phase = "off"

Init == DriverInit /\ PruneOff /\ ResultOff /\ ShellOff /\ EditorOff

Next ==
    \/ Request
    \/ Respond
    \/ RemoteFail
    \/ SkipBlock
    \/ ToolCall
    \/ Complete
    \/ AppendResults
    \/ Exhaust
    \/ Cancel
    \/ Interrupt

Spec == Init /\ [][Next]_vars

-----------------------------------------------------------------------------
(* _prune_images on its own: any conversation built from these turns, any   *)
(* images_to_keep >= 0, pruned once and then once more.                     *)

ToolResultBlock(id, is_error, content) ==
    [type |-> "tool_result", content |-> content, tool_use_id |-> id,
     is_error |-> is_error]

TurnTemplates ==
    { PromptTurn,
      AssistantTurn(<<[type |-> "text", text |-> "look"],
                      [type |-> "tool_use", id |-> <<1, 2>>, name |-> "computer",
                       input |-> cScreenshot]>>),
      UserTurn(<<ToolResultBlock(<<1, 1>>, FALSE, ListContent(<<ImageEntry("s1")>>))>>),
      UserTurn(<<ToolResultBlock(<<1, 1>>, FALSE,
                                 ListContent(<<TextEntry("out"), ImageEntry("s2")>>)),
                 TextEntry("[1 iterations remaining.]")>>),
      UserTurn(<<ToolResultBlock(<<1, 1>>, TRUE, StrContent("Unknown tool: x")),
                 ToolResultBlock(<<1, 2>>, FALSE,
                                 ListContent(<<ImageEntry("s3"), TextEntry("mid"),
                                               ImageEntry("s4")>>))>>),
      UserTurn(<<ImageEntry("upload"),
                 ToolResultBlock(<<1, 2>>, FALSE, ListContent(<<ImageEntry("s5")>>)),
                 ToolResultBlock(<<1, 3>>, FALSE, ListContent(<<>>))>>),
      UserTurn(<<ToolResultBlock(<<1, 1>>, FALSE, ListContent(<<TextEntry("hi")>>))>>) }

PruneInit ==
    /\ p_conv = <<>>
    /\ p_keep \in 0..MaxKeep
    /\ p_out = <<>>
    /\ p_out2 = <<>>
    /\ p_phase = "build"

AddTurn ==
    /\ p_phase = "build"
    /\ Len(p_conv) < MaxTurns
    /\ \E t \in TurnTemplates : p_conv' = Append(p_conv, t)
    /\ UNCHANGED <<editor_vars, p_keep, p_out, p_out2, p_phase, driver_vars, result_vars, shell_vars>>

\* _prune_images(messages, images_to_keep)
Prune ==
    /\ p_phase = "build"
    /\ p_out' = _prune_images(p_conv, p_keep)
    /\ p_phase' = "pruned"
    /\ UNCHANGED <<editor_vars, p_conv, p_keep, p_out2, driver_vars, result_vars, shell_vars>>

\* _prune_images again, on the pruned conversation
PruneAgain ==
    /\ p_phase = "pruned"
    /\ p_out2' = _prune_images(p_out, p_keep)
    /\ p_phase' = "repruned"
    /\ UNCHANGED <<editor_vars, p_conv, p_keep, p_out, driver_vars, result_vars, shell_vars>>

PruneNext == AddTurn \/ Prune \/ PruneAgain

PruneSpecInit == DriverOff /\ PruneInit /\ ResultOff /\ ShellOff /\ EditorOff

PruneSpec == PruneSpecInit /\ [][PruneNext]_vars

-----------------------------------------------------------------------------
(* _make_tool_result on its own, on the values the executors return: an     *)
(* output may be None, "" (a silent shell command) or text; an error is     *)
(* None or a message; an image is None or base64 data.                      *)

Outputs == {NoneVal, "", "hi", "X=0,Y=0"}
Errors == {NoneVal, "text is required for key", "Unknown tool: web_search"}
Images == {NoneVal, "png", "s1"}

ResultInit ==
    /\ r_in \in {ToolResult(o, e, im) : o \in Outputs, e \in Errors, im \in Images}
    /\ r_id \in {<<1, k>> : k \in 1..MaxIds}
    /\ r_out = <<>>
    /\ r_phase = "in"

MakeResult ==
    /\ r_phase = "in"
    /\ r_out' = _make_tool_result(r_in, r_id)
    /\ r_phase' = "out"
    /\ UNCHANGED <<editor_vars, r_in, r_id, driver_vars, prune_vars, shell_vars>>

ResultNext == MakeResult

ResultSpecInit == DriverOff /\ PruneOff /\ ResultInit /\ ShellOff /\ EditorOff

ResultSpec == ResultSpecInit /\ [][ResultNext]_vars

-----------------------------------------------------------------------------
(* TextEditor._str_replace on its own, on every small file and every small  *)
(* old_str and new_str.                                                      *)

MaxText == 3        \* longest file content explored, in characters
MaxOld == 2         \* longest old_str explored
MaxNew == 1         \* longest new_str explored

Chars == {"a", "b", LF, CR}

Texts(n) == UNION {[1..k -> Chars] : k \in 0..n}

EditorInit ==
    /\ e_before \in {AbsentFile} \cup {StoredFile(t) : t \in Texts(MaxText)}
    /\ e_file = e_before
    /\ e_old_str \in Texts(MaxOld)
    /\ e_new_str \in Texts(MaxNew)
    /\ e_out = ""
    /\ e_phase = "in"

\* editor.execute("str_replace", path="f", old_str=..., new_str=...)
StrReplaceCall ==
    /\ e_phase = "in"
    /\ LET r == StrReplace(e_file, "f", e_old_str, e_new_str)
       IN e_out' = r.output /\ e_file' = r.file
    /\ e_phase' = "out"
    /\ UNCHANGED <<e_before, e_old_str, e_new_str, driver_vars, prune_vars, result_vars,
                   shell_vars>>

EditorNext == StrReplaceCall

EditorSpecInit == DriverOff /\ PruneOff /\ ResultOff /\ ShellOff /\ EditorInit

EditorSpec == EditorSpecInit /\ [][EditorNext]_vars

-----------------------------------------------------------------------------
(* BashSession on its own: any sequence of execute, restart and close       *)

ShellSpecInit == DriverOff /\ PruneOff /\ ResultOff /\ ShellInit /\ EditorOff

ShellSpec == ShellSpecInit /\ [][ShellNext]_vars

-----------------------------------------------------------------------------
(* Vocabulary of the properties.  These read a conversation directly and    *)
(* share nothing with the operators that model the code.                    *)

ListOf(c) == IF "list" \in DOMAIN c THEN c.list ELSE <<>>

\* The tool_result images of a conversation, by place <<turn, block, entry>>.
ImagePlaces(conv) ==
    { p \in UNION { UNION { { <<t, b, e>> : e \in 1..Len(ListOf(ListOf(conv[t].content)[b].content)) }
                            : b \in { b \in 1..Len(ListOf(conv[t].content)) :
                                        ListOf(conv[t].content)[b].type = "tool_result" } }
                    : t \in 1..Len(conv) } :
        ListOf(ListOf(conv[p[1]].content)[p[2]].content)[p[3]].type = "image" }

ImageTotal(conv) == Cardinality(ImagePlaces(conv))

\* Chronological order: older turn, then earlier block, then earlier entry.
Older(p, q) ==
    \/ p[1] < q[1]
    \/ p[1] = q[1] /\ p[2] < q[2]
    \/ p[1] = q[1] /\ p[2] = q[2] /\ p[3] < q[3]

\* The images that are not among the keep newest ones.
OldestBeyond(conv, keep) ==
    { p \in ImagePlaces(conv) :
        Cardinality({ q \in ImagePlaces(conv) : Older(p, q) }) >= keep }

RECURSIVE Pick(_, _, _)
Pick(seq, idx, k) ==
    IF k > Len(seq) THEN <<>>
    ELSE (IF k \in idx THEN <<seq[k]>> ELSE <<>>) \o Pick(seq, idx, k + 1)

NonImages(entries) == SelectSeq(entries, LAMBDA e : e.type # "image")
OnlyImages(entries) == SelectSeq(entries, LAMBDA e : e.type = "image")

ResultPlaces(conv) ==
    UNION { { <<t, b>> : b \in { b \in 1..Len(ListOf(conv[t].content)) :
                                   ListOf(conv[t].content)[b].type = "tool_result" } }
            : t \in 1..Len(conv) }

EntriesAt(conv, tb) == ListOf(ListOf(conv[tb[1]].content)[tb[2]].content)

-----------------------------------------------------------------------------
(* Claims about _prune_images, checked under PruneSpec *)

\* C4: after prune(conversation, keep_n) the tool_result images number
\* min(total_before, keep_n), and the images removed are exactly the
\* chronologically oldest total_before - keep_n ones: in every tool_result the
\* images left are those of the input that are among the keep_n newest, in order.
C4_PruneKeepsNewest ==
    p_phase # "build" =>
        /\ ImageTotal(p_out) = Min(ImageTotal(p_conv), p_keep)
        /\ ResultPlaces(p_out) = ResultPlaces(p_conv)
        /\ \A tb \in ResultPlaces(p_conv) :
              OnlyImages(EntriesAt(p_out, tb)) =
                  Pick(EntriesAt(p_conv, tb),
                       { e \in 1..Len(EntriesAt(p_conv, tb)) :
                           /\ <<tb[1], tb[2], e>> \in ImagePlaces(p_conv)
                           /\ <<tb[1], tb[2], e>> \notin OldestBeyond(p_conv, p_keep) },
                       1)

\* C4 witness: a pruning that removed the older image of a tool_result and kept
\* the newer one of the same tool_result.
C4_Witness ==
    /\ p_phase = "pruned"
    /\ p_keep >= 1
    /\ ImageTotal(p_conv) > p_keep + 1
    /\ \E tb \in ResultPlaces(p_conv) :
          /\ Len(OnlyImages(EntriesAt(p_conv, tb))) = 2
          /\ Len(OnlyImages(EntriesAt(p_out, tb))) = 1

\* C5: prune changes nothing but the image entries of tool_result content: the
\* turns, their roles, the blocks, their ids and is_error flags, and every
\* non-image entry stay as they were and in order; a tool_result emptied of
\* content stays in place with an empty content list.
C5_PruneFrame ==
    p_phase # "build" =>
        /\ Len(p_out) = Len(p_conv)
        /\ \A t \in 1..Len(p_conv) :
              /\ p_out[t].role = p_conv[t].role
              /\ DOMAIN p_out[t].content = DOMAIN p_conv[t].content
              /\ "str" \in DOMAIN p_conv[t].content => p_out[t] = p_conv[t]
              /\ Len(ListOf(p_out[t].content)) = Len(ListOf(p_conv[t].content))
              /\ \A b \in 1..Len(ListOf(p_conv[t].content)) :
                    LET old == ListOf(p_conv[t].content)[b]
                        new == ListOf(p_out[t].content)[b]
                    IN IF old.type # "tool_result" THEN new = old
                       ELSE /\ new.type = "tool_result"
                            /\ new.tool_use_id = old.tool_use_id
                            /\ new.is_error = old.is_error
                            /\ DOMAIN new.content = DOMAIN old.content
                            /\ "str" \in DOMAIN old.content => new = old
                            /\ NonImages(ListOf(new.content)) = NonImages(ListOf(old.content))

\* C5 witness: a tool_result left with an empty content list, and a text entry
\* that outlived the image next to it.
C5_Witness ==
    /\ p_phase = "pruned"
    /\ \E tb \in ResultPlaces(p_conv) :
          EntriesAt(p_conv, tb) # <<>> /\ EntriesAt(p_out, tb) = <<>>
    /\ \E tb \in ResultPlaces(p_conv) :
          /\ Len(EntriesAt(p_out, tb)) < Len(EntriesAt(p_conv, tb))
          /\ NonImages(EntriesAt(p_out, tb)) # <<>>

\* C6: pruning is idempotent, prune(prune(c, keep_n), keep_n) = prune(c, keep_n),
\* and prune is a no-op on a conversation holding at most keep_n images.
C6_PruneIdempotent ==
    /\ p_phase = "repruned" => p_out2 = p_out
    /\ (p_phase # "build" /\ ImageTotal(p_conv) <= p_keep) => p_out = p_conv

\* C6 witness: a second pruning of a conversation the first pruning changed.
C6_Witness == p_phase = "repruned" /\ p_out # p_conv /\ ImageTotal(p_out) > 0

-----------------------------------------------------------------------------
(* Claims about _make_tool_result, checked under ResultSpec *)

IsSet(s) == s # NoneVal
NonEmpty(s) == s # NoneVal /\ s # ""

\* The encoding of a ToolOutcome, for a given reading Has of "the field is set".
Encodes(blk, res, id, Has(_)) ==
    /\ blk.type = "tool_result"
    /\ blk.tool_use_id = id
    /\ IF Has(res.error)
       THEN blk.is_error = TRUE /\ blk.content = [str |-> res.error]
       ELSE /\ blk.is_error = FALSE
            /\ blk.content =
                 [list |->
                    (IF Has(res.output)
                     THEN <<[type |-> "text", text |-> res.output]>> ELSE <<>>)
                    \o (IF Has(res.base64_image)
                        THEN <<[type |-> "image",
                                source |-> [type |-> "base64",
                                            media_type |-> "image/png",
                                            data |-> res.base64_image]]>>
                        ELSE <<>>)]

\* C10 as stated: with error set, is_error = true and the content is the error
\* text; otherwise is_error = false and the content is the text entry if output
\* is present, then the image entry if image is present.
C10_EncodesPresentFields == r_phase = "out" => Encodes(r_out, r_in, r_id, IsSet)

\* C10 as amended: the same with "set" and "present" read as "a non-empty
\* string": an empty error, output or image counts as absent.
C10_EncodesNonEmptyFields == r_phase = "out" => Encodes(r_out, r_in, r_id, NonEmpty)

\* C10 witness: a success outcome with both output and image, encoded as the
\* text entry followed by the image entry.
C10_Witness ==
    /\ r_phase = "out"
    /\ ~NonEmpty(r_in.error) /\ NonEmpty(r_in.output) /\ NonEmpty(r_in.base64_image)
    /\ r_out.is_error = FALSE
    /\ Len(r_out.content.list) = 2

-----------------------------------------------------------------------------
(* Claims about the driver loop, checked under Spec *)

UseIds(turn) ==
    LET uses == SelectSeq(ListOf(turn.content), LAMBDA b : b.type = "tool_use")
    IN [k \in 1..Len(uses) |-> uses[k].id]

ResultIds(turn) ==
    LET rs == SelectSeq(ListOf(turn.content), LAMBDA b : b.type = "tool_result")
    IN [k \in 1..Len(rs) |-> rs[k].tool_use_id]

AssistantPlaces == { k \in 1..Len(messages) : messages[k].role = "assistant" }

\* Every assistant turn followed by a user turn is answered there: one
\* tool_result per tool_use, same ids, same order.
AnsweredInNextTurn ==
    \A k \in AssistantPlaces :
        (k < Len(messages) /\ messages[k + 1].role = "user")
            => ResultIds(messages[k + 1]) = UseIds(messages[k])

\* An assistant turn with tool_use blocks that the next turn does not answer.
Unanswered(k) ==
    /\ k \in AssistantPlaces
    /\ UseIds(messages[k]) # <<>>
    /\ \/ k = Len(messages)
       \/ messages[k + 1].role # "user"
       \/ ResultIds(messages[k + 1]) # UseIds(messages[k])

\* C1 as stated: ... and an assistant turn whose tool_use blocks are unanswered
\* is the last turn of a run that has terminated.
C1_UnansweredOnlyAfterTermination ==
    /\ AnsweredInNextTurn
    /\ \A k \in 1..Len(messages) :
          Unanswered(k) => (k = Len(messages) /\ pc \in Terminated)

\* C1 as amended: ... and an assistant turn whose tool_use blocks are unanswered
\* is the last turn of a run that is still executing that turn's tool calls or
\* has terminated.
C1_UnansweredOnlyLastTurn ==
    /\ AnsweredInNextTurn
    /\ \A k \in 1..Len(messages) :
          Unanswered(k) => (k = Len(messages) /\ pc \in Terminated \cup {"blocks"})

\* C1 witness: a run that ended with its last assistant turn unanswered, after
\* a turn with two tool_use blocks was answered in order.
C1_Witness ==
    /\ pc \in Terminated
    /\ Unanswered(Len(messages))
    /\ \E k \in AssistantPlaces :
          /\ k < Len(messages)
          /\ Len(UseIds(messages[k])) = 2
          /\ ResultIds(messages[k + 1]) = UseIds(messages[k])

NumAssistant == Cardinality(AssistantPlaces)

RequestsTools(k) == UseIds(messages[k]) # <<>>

AllRequestTools == \A k \in AssistantPlaces : RequestsTools(k)

\* The run was stopped from outside: an interrupt, or a failed remote call.
ExternallyStopped == pc = "interrupted" \/ abort_cause \in {"remote", "interrupt"}

RECURSIVE Flatten(_)
Flatten(ss) == IF ss = <<>> THEN <<>> ELSE Head(ss) \o Flatten(Tail(ss))

\* The ids of all tool_use blocks of the conversation, in order.
RequestedIds == Flatten([k \in 1..Len(messages) |->
                           IF messages[k].role = "assistant" THEN UseIds(messages[k])
                           ELSE <<>>])

DispatchedIds == [k \in 1..Len(calls) |-> calls[k].id]

\* C2 as stated: run completes at the first response without tool_use blocks (no
\* tool call, remote call or user turn follows it); when the first k responses
\* request tools, k < max_iterations, and response k+1 requests none, run makes
\* k+1 remote calls, executes exactly the requested tool calls and holds 2k+2
\* turns.  So a run that has only seen tool-requesting responses, fewer than
\* max_iterations of them, does not end by itself.
C2_CompletesAtFirstToolFreeResponse ==
    /\ \A k \in AssistantPlaces :
          ~RequestsTools(k) =>
              /\ k = Len(messages)
              /\ pc \in {"blocks"} \cup Terminated
              /\ api_calls = NumAssistant
              /\ Len(messages) = 2 * NumAssistant
              /\ DispatchedIds = RequestedIds
              /\ (pc \in Terminated /\ ~ExternallyStopped) => pc = "completed"
    /\ (pc \in Terminated /\ ~ExternallyStopped /\ AllRequestTools)
          => NumAssistant = max_iterations

\* C3 as stated: when every response requests a tool, run makes exactly
\* max_iterations remote calls, then ends exhausted with max_iterations
\* assistant turns.
C3_ExhaustsAfterMaxIterations ==
    /\ api_calls <= max_iterations
    /\ (pc \in Terminated /\ ~ExternallyStopped /\ AllRequestTools)
          => /\ pc = "exhausted"
             /\ api_calls = max_iterations
             /\ i = max_iterations
             /\ NumAssistant = max_iterations

\* C7 as stated: for every keep_n >= 0 the conversation handed to the remote
\* service holds at most keep_n tool_result images.
C7_TransmittedWithinKeep ==
    pc = "create" => ImageTotal(transmitted) <= keep_n

RegisteredTools == {"computer", "bash", "str_replace_based_edit_tool"}

\* The block the shopping driver is about to dispatch names no registered tool.
AtUnknownTool ==
    /\ driver = "run"
    /\ pc = "blocks"
    /\ bi <= Len(assistant_content)
    /\ assistant_content[bi].type = "tool_use"
    /\ assistant_content[bi].name \notin RegisteredTools

\* C8: dispatching a tool_use whose name is not registered returns an error
\* outcome without raising and without invoking or changing any executor, and
\* the driver appends a tool_result with is_error = true and goes on with the
\* next block: every step taken at such a block, other than an interrupt, is
\* that one.
C8_UnknownToolIsErrorResult ==
    [][ (AtUnknownTool /\ pc' # "interrupted" /\ cancel_requested' = cancel_requested) =>
            /\ pc' = "blocks"
            /\ bi' = bi + 1
            /\ display' = display /\ bash' = bash /\ files' = files
            /\ calls' = Append(calls, [id |-> assistant_content[bi].id,
                                       executor |-> "none"])
            /\ Len(tool_results') = Len(tool_results) + 1
            /\ tool_results'[Len(tool_results')].is_error = TRUE
            /\ tool_results'[Len(tool_results')].tool_use_id = assistant_content[bi].id
            /\ "str" \in DOMAIN tool_results'[Len(tool_results')].content
            /\ messages' = messages ]_vars

\* C8 witness: the run went on to its next remote call with the error result of
\* the unknown tool in the conversation.
C8_Witness ==
    /\ driver = "run"
    /\ pc = "create"
    /\ \E k \in 1..Len(messages) : \E b \in 1..Len(ListOf(messages[k].content)) :
          LET blk == ListOf(messages[k].content)[b] IN
          /\ blk.type = "tool_result"
          /\ blk.is_error = TRUE
          /\ blk.content = [str |-> "Unknown tool: web_search"]
    /\ \E c \in 1..Len(calls) : calls[c].executor = "none"

\* What the editor answers on an editing conflict.
EditingConflictTexts ==
    { "Error: File not found: f",
      "Error: File already exists: f",
      "Error: No match found for replacement. Please check your text and try again.",
      "Error: Found 2 matches for replacement text. Please provide more context to make a unique match." }

\* C9 as stated: every tool execution error becomes a tool_result with
\* is_error = true and no tool execution error aborts the run.
C9_ToolErrorsBecomeErrorResults ==
    /\ abort_cause # "tool"
    /\ \A k \in 1..Len(tool_results) :
          (\E e \in 1..Len(ListOf(tool_results[k].content)) :
               /\ ListOf(tool_results[k].content)[e].type = "text"
               /\ ListOf(tool_results[k].content)[e].text \in EditingConflictTexts)
            => tool_results[k].is_error = TRUE

-----------------------------------------------------------------------------
(* Failure of the remote call, interruption, exhaustion *)

\* C11: a failed remote call is fatal and not retried: the step on which the
\* call fails leaves run raising (not returning), appends no turn and makes no
\* call, and no step follows it that makes a remote call, a tool call or
\* appends a turn.
C11_RemoteFailureIsFatal ==
    [][ abort_cause' = "remote" =>
            /\ pc' = "aborted"
            /\ messages' = messages
            /\ api_calls' = api_calls
            /\ calls' = calls
            /\ display' = display /\ files' = files ]_vars

\* C11 witness: the remote call of a later iteration failed, after a first
\* iteration that ran tools.
C11_Witness ==
    /\ abort_cause = "remote"
    /\ pc = "aborted"
    /\ api_calls = 2
    /\ Len(messages) = 3
    /\ calls # <<>>

\* A step on which the run ends by interruption or by exhaustion.
EndsByInterruptOrExhaustion ==
    /\ pc \notin Terminated
    /\ pc' \in Terminated
    /\ pc' = "exhausted" \/ pc' = "interrupted" \/ abort_cause' = "interrupt"

\* C12 as stated: a run that ends by interruption or exhaustion returns (does
\* not raise) and what it returns is the conversation accumulated so far: no
\* step drops or reorders a turn, and the ending step leaves the conversation
\* as it was.
C12_ReturnsConversationOnInterruptOrExhaustion ==
    [][ /\ Len(messages') >= Len(messages)
        /\ \A k \in 1..Len(messages) : messages'[k].role = messages[k].role
        /\ EndsByInterruptOrExhaustion =>
              /\ pc' \in {"exhausted", "interrupted"}
              /\ messages' = messages ]_vars

\* An external interrupt has reached the program.
InterruptSeen ==
    cancel_requested \/ pc = "interrupted" \/ abort_cause = "interrupt"

\* C13 as stated: once an interrupt is seen, run makes no further remote call
\* and no further tool call, and it ends by returning the partial conversation
\* with the BashSession closed.
C13_InterruptStopsCallsAndClosesShell ==
    /\ [](driver = "run" /\ InterruptSeen /\ pc \in Terminated
            => ~bash.alive /\ pc = "interrupted")
    /\ [][ driver = "run" /\ InterruptSeen
             => api_calls' = api_calls /\ calls' = calls ]_vars

-----------------------------------------------------------------------------
(* BashSession: what the calls return                                       *)

\* The last call that returned was an execute of this command.
Executed(command) == s_last.call.op = "execute" /\ s_last.call.command = command

\* The lines of a text.
Lines(text) == {text[k] : k \in 1..Len(text)}

\* The commands written to the call's child before the call.
SentBefore == s_last.call.sent

\* C14: consecutive execute calls on a live session, with no restart or close
\* in between, run in the same child process, so shell state set by one call
\* is observed by every later one: after execute("export FOO=bar") an
\* execute("echo $FOO") returns "bar", and after execute("cd /tmp") an
\* execute("pwd") returns "/tmp".
C14_ShellStatePersists ==
    /\ Executed("echo ${FOO:-empty}") /\ "export FOO=bar" \in SentBefore
           => s_last.result = <<"bar">>
    /\ Executed("pwd") /\ "cd /tmp" \in SentBefore
           => s_last.result = <<"/tmp">>

\* A restart() returns in this step.
RestartReturns ==
    s_pc = "idle" /\ s_pc' = "idle" /\ s_calls' = s_calls + 1 /\ s_last'.call.op = "restart"

\* A shell as bash starts it: nothing exported, the initial directory, nothing
\* read or written yet, empty queues.
Pristine(ch) ==
    /\ ch.alive /\ ch.env = "unset" /\ ch.cwd = "/home" /\ ch.status = 0
    /\ ch.stdin = <<>>
    /\ ch.outpart = "" /\ ch.outpipe = <<>> /\ ch.errpipe = <<>>
    /\ ch.outq = <<>> /\ ch.errq = <<>>

\* C15: restart discards all shell state and returns a confirmation message.
\* The child is replaced by a pristine one and the old one is dead when
\* restart returns "Bash session restarted."; nothing set before the restart
\* is visible to an execute after it: after execute("export FOO=bar") and
\* restart(), execute("echo ${FOO:-empty}") returns "empty".
C15_RestartDiscardsState ==
    /\ [][ RestartReturns =>
             /\ s_last'.result = <<"Bash session restarted.">>
             /\ process' = Len(children) + 1
             /\ Len(children') = Len(children) + 1
             /\ Pristine(children'[process'])
             /\ \A c \in Pids : ~children'[c].alive ]_vars
    /\ [](\A c \in Pids :
             /\ "export FOO=bar" \notin children[c].sent => children[c].env = "unset"
             /\ "cd /tmp" \notin children[c].sent => children[c].cwd = "/home")
    /\ [](/\ Executed("echo ${FOO:-empty}") /\ "export FOO=bar" \notin SentBefore
             => /\ "bar" \notin Lines(s_last.result)
                /\ ~s_last.call.stale => s_last.result = <<"empty">>
          /\ Executed("pwd") /\ "cd /tmp" \notin SentBefore
             => /\ "/tmp" \notin Lines(s_last.result)
                /\ ~s_last.call.stale => s_last.result = <<"/home">>)

\* FOO was exported in a shell, restart() replaced that shell, and the next
\* call, execute("echo ${FOO:-empty}"), has returned "empty".
C15_Witness ==
    /\ Executed("echo ${FOO:-empty}")
    /\ s_last.result = <<"empty">>
    /\ s_last.call.pid = process
    /\ children[process].origin = "restart"
    /\ "export FOO=bar" \in children[process].lost
    /\ s_calls = 3

\* A close() returns in this step.
CloseReturns ==
    s_pc = "idle" /\ s_pc' = "idle" /\ s_calls' = s_calls + 1 /\ s_last'.call.op = "close"

\* C16: close is idempotent and never raises.  Whenever the session is not
\* inside a call, close() can be called and returns; after it the handle is
\* None and no child is alive; on a session that is already closed it changes
\* nothing.
C16_CloseIsIdempotent ==
    /\ [](s_pc = "idle" /\ s_calls < MaxCalls => ENABLED Close)
    /\ [][ CloseReturns =>
             /\ s_last'.result = <<>>
             /\ process' = 0
             /\ \A c \in Pids : ~children'[c].alive
             /\ process = 0 => children' = children ]_vars

\* close() has returned on a session that an earlier close() had closed.
C16_Witness ==
    /\ s_last.call.op = "close"
    /\ s_last.call.pid = 0
    /\ process = 0
    /\ s_calls >= 2
    /\ \A c \in Pids : ~children[c].alive

\* The marker texts of all the calls of a session.
MarkerTexts == {Sentinel(n) : n \in 1..MaxCalls}

\* C17: the text returned by execute never contains the marker text, neither
\* for the call that wrote the marker nor for a call that follows a timed-out
\* call; and a command whose output has no trailing newline, such as
\* printf 'no newline here', returns exactly that output.
C17_NoMarkerInResult ==
    s_last.call.op = "execute" =>
        /\ Lines(s_last.result) \cap MarkerTexts = {}
        /\ Executed("printf 'no newline here'") => s_last.result = <<"no newline here">>

\* What a command prints when run in a shell of the given state, stream by
\* stream.
Printed(command, env, cwd) ==
    CASE command = "echo hello" -> [out |-> <<"hello">>, err |-> <<>>]
      [] command = "echo ${FOO:-empty}" -> [out |-> <<env>>, err |-> <<>>]
      [] command = "pwd" -> [out |-> <<cwd>>, err |-> <<>>]
      [] command = "printf 'no newline here'" -> [out |-> <<"no newline here">>, err |-> <<>>]
      [] command = "echo out; echo oops >&2" -> [out |-> <<"out">>, err |-> <<"oops">>]
      [] command = "echo line1; echo line2; echo line3" ->
             [out |-> <<"line1", "line2", "line3">>, err |-> <<>>]
      [] command = "ls /nonexistent 2>&1; echo done" ->
             [out |-> <<"ls: cannot access '/nonexistent'", "done">>, err |-> <<>>]
      [] command = "sleep 45; echo late; echo oops >&2" -> [out |-> <<"late">>, err |-> <<"oops">>]
      [] command = "while sleep 15; do echo tick; echo tick >&2; done" ->
             [out |-> <<"tick">>, err |-> <<"tick">>]
      [] OTHER -> [out |-> <<>>, err |-> <<>>]

\* The state of the call's shell when the command ran, from what it had been
\* sent.
EnvBefore == IF "export FOO=bar" \in SentBefore THEN "bar" ELSE "empty"
CwdBefore == IF "cd /tmp" \in SentBefore THEN "/tmp" ELSE "/home"

\* The last call ran on a shell on which no q.get had timed out, and no q.get
\* timed out in it.
Undisturbed == ~s_last.call.stale /\ s_last.expired = 0

\* C18: the result of execute is the command's standard output followed by
\* its standard error, with all of the delimiter machinery removed: nothing
\* the command did not print appears between or around the two streams' text.
C18_StdoutThenStderrOnly ==
    s_last.call.op = "execute" /\ Undisturbed =>
        LET p == Printed(s_last.call.command, EnvBefore, CwdBefore)
        IN s_last.result = p.out \o p.err

\* The last call was an execute in which a q.get timed out before the marker.
TimedOut == s_last.call.op = "execute" /\ s_last.expired > 0

\* C19: when the timeout elapses before the marker is observed, execute raises
\* no error and returns exactly the output lines that had accumulated on the
\* streams up to that point (possibly none): the result is what the streams
\* held when the timeout elapsed, or else what they held when execute
\* returned, nothing of it left unread.
C19_TimeoutReturnsAccumulatedOutput ==
    TimedOut => \/ s_last.result = Strip(s_last.snapshot)
                \/ s_last.left = <<>>

\* An execute writes its command in this step.
ExecuteStarts == s_pc = "idle" /\ s_pc' = "read_out"

\* The lines of a text that are not empty.
NonBlank(text) == SelectSeq(text, LAMBDA line : line # "")

\* C20: when the child has exited or there is none, the next execute starts a
\* fresh child and runs the command in it without raising: the command, and
\* nothing else, is written to a new pristine shell, no other child is alive,
\* and the call returns what the command prints in a shell that carries none
\* of the old one's state.
C20_ExecuteStartsFreshChild ==
    /\ [][ ExecuteStarts /\ (process = 0 \/ ~children[process].alive) =>
             /\ process' = Len(children) + 1
             /\ Len(children') = Len(children) + 1
             /\ \A c \in Pids : ~children'[c].alive
             /\ Pristine([children'[process'] EXCEPT !.stdin = <<>>])
             /\ children'[process'].stdin = FullCommand(s_call'.command, s_sentinel')
             /\ s_call'.pid = process' ]_vars
    /\ [](s_pc = "idle" /\ s_calls < MaxCalls => ENABLED Execute)
    /\ [](s_last.call.op = "execute" /\ s_last.call.spawned
            /\ s_last.call.command # "sleep 45; echo late; echo oops >&2"
          => LET p == Printed(s_last.call.command, "empty", "/home")
             IN NonBlank(s_last.result) = p.out \o p.err)

\* FOO was exported in the first shell, the shell has exited or was closed,
\* and the next call, execute("echo ${FOO:-empty}"), ran in a shell that it
\* started itself and returned "empty".
C20_Witness ==
    /\ Executed("echo ${FOO:-empty}")
    /\ s_last.call.spawned
    /\ s_last.result = <<"empty">>
    /\ s_last.call.pid = 2 /\ process = 2
    /\ children[2].origin = "execute"
    /\ "export FOO=bar" \in children[1].sent

-----------------------------------------------------------------------------
(* The driver loop: order of the tool calls and shape of the conversation   *)

IsPrefix(s, t) == Len(s) <= Len(t) /\ \A k \in 1..Len(s) : s[k] = t[k]

\* The tool calls dispatched for the response being processed.
CallsOfThisTurn == SelectSeq(calls, LAMBDA c : c.id[1] = api_calls)

-----------------------------------------------------------------------------
(* BashSession: the readers, the queues and the timeout                     *)

\* In a text, `second` never comes without `first` right before it.
Follows(text, first, second) ==
    \A k \in 1..Len(text) : text[k] = second => k > 1 /\ text[k - 1] = first

\* C22: the lines of one stream reach execute in the order the child wrote
\* them, whatever the interleaving of the two readers: the queues are first
\* in, first out (a line is only ever added at the end and taken at the
\* front), every result holds line2 right after line1 and line3 right after
\* line2, and "echo line1; echo line2; echo line3" returns the three lines in
\* that order.
C22_StreamOrderPreserved ==
    /\ [][ \A c \in Pids :
             /\ \/ IsPrefix(children[c].outq, children'[c].outq)
                \/ children'[c].outq = Tail(children[c].outq)
             /\ \/ IsPrefix(children[c].errq, children'[c].errq)
                \/ children'[c].errq = Tail(children[c].errq)
             /\ children'[c].outq \o children'[c].outpipe # children[c].outq \o children[c].outpipe
                  => \/ IsPrefix(children[c].outq \o children[c].outpipe,
                                 children'[c].outq \o children'[c].outpipe)
                     \/ children'[c].outq \o children'[c].outpipe
                          = Tail(children[c].outq \o children[c].outpipe) ]_vars
    /\ [](s_last.call.op = "execute" =>
             /\ Follows(s_last.result, "line1", "line2")
             /\ Follows(s_last.result, "line2", "line3"))
    /\ [](Executed("echo line1; echo line2; echo line3") /\ Undisturbed
             => s_last.result = <<"line1", "line2", "line3">>)

\* "echo line1; echo line2; echo line3" has returned its three lines in order.
C22_Witness ==
    /\ Executed("echo line1; echo line2; echo line3")
    /\ s_last.result = <<"line1", "line2", "line3">>
    /\ s_calls = 1

\* C23: execute never raises because a command exits with a nonzero status and
\* does not surface the status.  "ls /nonexistent 2>&1; echo done" returns the
\* message of ls and then "done", text only; the shell is alive and the
\* session can take the next call when it has returned.
C23_NonzeroStatusNotSurfaced ==
    /\ Executed("ls /nonexistent 2>&1; echo done") /\ s_last.expired = 0
         => /\ s_last.result # <<>>
            /\ s_last.result[Len(s_last.result)] = "done"
            /\ Follows(s_last.result, "ls: cannot access '/nonexistent'", "done")
            /\ Undisturbed
                 => s_last.result = <<"ls: cannot access '/nonexistent'", "done">>
    /\ Executed("ls /nonexistent 2>&1; echo done") /\ s_pc = "idle"
         => /\ process = s_last.call.pid
            /\ children[process].alive
            /\ children[process].status = 0
            /\ s_calls < MaxCalls => ENABLED Execute

\* The failing ls and the echo after it have run in one call, which returned
\* both texts; the shell is alive.
C23_Witness ==
    /\ Executed("ls /nonexistent 2>&1; echo done")
    /\ s_last.result = <<"ls: cannot access '/nonexistent'", "done">>
    /\ s_pc = "idle"
    /\ children[process].alive

-----------------------------------------------------------------------------
(* The driver loop: what the caller gets back                               *)

LastTurn == messages[Len(messages)]

\* What the caller can read off the returned conversation: it ends with an
\* assistant turn that requests no tool.
EndsWithToolFreeAssistantTurn ==
    LastTurn.role = "assistant" /\ UseIds(LastTurn) = <<>>

\* C24: a run that ends by iteration exhaustion is reported distinctly from a
\* completed one.  Both return the conversation: that of a completed run ends
\* with an assistant turn without tool_use, that of an exhausted run
\* (max_iterations passes made) ends with the user turn of tool results, so
\* the caller can tell the two apart.
C24_ExhaustedDistinctFromCompleted ==
    /\ pc = "completed" => EndsWithToolFreeAssistantTurn /\ i < max_iterations
    /\ pc = "exhausted" =>
          /\ ~EndsWithToolFreeAssistantTurn
          /\ LastTurn.role = "user"
          /\ i = max_iterations

\* A run has ended by exhaustion after two passes; its conversation ends with
\* the tool results of the second.
C24_Witness ==
    /\ pc = "exhausted"
    /\ max_iterations = 2
    /\ Len(messages) = 5
    /\ LastTurn.role = "user"
    /\ ResultIds(LastTurn) # <<>>

\* A turn without the image entries of its tool_result blocks.
SansImages(turn) ==
    IF "list" \notin DOMAIN turn.content THEN turn
    ELSE LET l == turn.content.list IN
         [turn EXCEPT !.content =
            [list |-> [b \in 1..Len(l) |->
                         IF l[b].type = "tool_result" /\ "list" \in DOMAIN l[b].content
                         THEN [l[b] EXCEPT !.content = [list |-> NonImages(l[b].content.list)]]
                         ELSE l[b]]]]

\* The turns that were there before the step are there after it, unchanged.
KeepsTurns == IsPrefix(messages, messages')

\* C25 as stated: the conversation is append-only during a run: every step
\* leaves the sequence of turns unchanged or appends exactly one turn at the
\* end; a turn already in the conversation is never removed, reordered or
\* replaced.
C25_AppendOnly ==
    [][ \/ messages' = messages
        \/ Len(messages') = Len(messages) + 1 /\ KeepsTurns ]_vars

\* C25 as amended: every step leaves the number of turns unchanged or appends
\* exactly one turn at the end, and no turn is removed or reordered; the only
\* change ever made to a turn already in the conversation is that image
\* pruning, at the start of a pass, takes image entries out of its
\* tool_result blocks: everything else in it stays as it is.
C25_AppendOnlyUpToPruning ==
    [][ /\ Len(messages') \in {Len(messages), Len(messages) + 1}
        /\ \A k \in 1..Len(messages) : SansImages(messages'[k]) = SansImages(messages[k])
        /\ Len(messages') = Len(messages) + 1 => KeepsTurns
        /\ ~KeepsTurns =>
              /\ pc = "loop" /\ pc' = "create" /\ keep_n # 0
              /\ CountImages(messages') = keep_n
              /\ CountImages(messages) > keep_n ]_vars

\* The second pass has started with only_n_most_recent_images = 1 on a
\* conversation whose user turn answers two display actions: the turn is still
\* in its place with both tool results, the older one without the screenshot
\* it was built with, the newer one with it.
C25_Witness ==
    /\ pc = "create"
    /\ keep_n = 1
    /\ Len(messages) = 3
    /\ transmitted = messages
    /\ Len(ResultIds(messages[3])) = 2
    /\ EntriesOf(BlocksOf(messages[3])[1]) = <<>>
    /\ ImagesInBlock(BlocksOf(messages[3])[2]) = 1
    /\ ImagesInBlock(tool_results[1]) = 1
    /\ tool_results[1].tool_use_id = BlocksOf(messages[3])[1].tool_use_id

\* A block of the response and the block stored for it: same type; a text
\* block with its text, a thinking block with its text and signature, any
\* other block as its full payload.
StoredAs(block, param) ==
    /\ param.type = block.type
    /\ block.type = "text" => param.text = block.text
    /\ block.type = "thinking" =>
          param.thinking = block.thinking /\ param.signature = block.signature
    /\ block.type \notin {"text", "thinking"} => param = block

\* The stored blocks are these blocks, one for one and in this order.
StoredInOrder(blocks) ==
    /\ Len(assistant_content) = Len(blocks)
    /\ \A k \in 1..Len(blocks) : StoredAs(blocks[k], assistant_content[k])
    /\ messages[Len(messages)].role = "assistant"
          => messages[Len(messages)].content = [list |-> assistant_content]

IsEmptyText(block) == block.type = "text" /\ block.text = ""

\* C26 as stated: converting a response into the stored assistant turn keeps
\* every block, in response order: a block of unrecognized type is stored
\* unchanged as its full payload, thinking blocks keep text and signature,
\* and no block of the response is missing from the assistant turn.
C26_KeepsEveryBlock == response # <<>> /\ pc = "blocks" => StoredInOrder(response)

\* C26 as amended: the conversion keeps the blocks in response order and keeps
\* every block except text blocks whose text is empty, which are left out: a
\* block of unrecognized type is stored unchanged as its full payload,
\* thinking blocks keep text and signature, text blocks keep their text.
C26_KeepsEveryNonEmptyBlock ==
    response # <<>> /\ pc = "blocks"
        => StoredInOrder(SelectSeq(response, LAMBDA b : ~IsEmptyText(b)))

\* A response of a thinking block, an empty text block and a tool_use block
\* has been converted: the assistant turn holds the thinking block with text
\* and signature and the tool_use block.
C26_Witness ==
    /\ pc = "blocks"
    /\ Len(response) = 3
    /\ response[1].type = "thinking" /\ IsEmptyText(response[2])
    /\ response[3].type = "tool_use"
    /\ Len(assistant_content) = 2
    /\ assistant_content[1].signature = "sig"
    /\ assistant_content[2] = response[3]

\* Every line of `part` is in `text`, in the same order, as one block.
HasBlock(text, part) ==
    \E k \in 0..(Len(text) - Len(part)) : SubSeq(text, k + 1, k + Len(part)) = part

\* C27: completion is detected on each stream independently.  When execute has
\* returned without a timeout it has taken the marker of this call from the
\* standard output queue and from the standard error queue: the shell has run
\* the whole command and both marker echoes, and the marker is on neither
\* pipe and in neither queue any more; and the lines the command wrote to
\* standard output and those it wrote to standard error are all in the
\* result, each stream's in order.
C27_MarkerSeenOnBothStreams ==
    s_pc = "idle" /\ s_last.call.op = "execute" /\ s_last.expired = 0 =>
        LET ch == children[s_last.call.pid]
            p == Printed(s_last.call.command, EnvBefore, CwdBefore)
        IN /\ s_last.call.pid = process
           /\ ch.alive /\ ch.stdin = <<>> /\ ch.outpart = ""
           /\ s_sentinel \notin Lines(ch.outq \o ch.outpipe \o ch.errq \o ch.errpipe)
           /\ s_sentinel \notin Lines(s_last.result)
           /\ HasBlock(s_last.result, p.out)
           /\ HasBlock(s_last.result, p.err)

\* A call on a shell on which an earlier call had timed out has returned
\* without a timeout: it read on past the old marker to its own, on both
\* streams, and the output of its command is in the result.
C27_Witness ==
    /\ s_pc = "idle"
    /\ Executed("echo out; echo oops >&2")
    /\ s_last.expired = 0
    /\ s_last.call.stale
    /\ HasBlock(s_last.result, <<"out">>) /\ HasBlock(s_last.result, <<"oops">>)
    /\ Lines(s_last.result) \cap {Sentinel(n) : n \in 1..MaxCalls} # {}

\* C28: a command in flight inside execute is bounded by its timeout: for
\* every command, also one that never finishes or keeps printing lines for
\* ever, the reading of each stream ends when the marker is seen or the
\* timeout elapses, whichever comes first.  So the reading of standard output
\* is over one timeout after the call began and that of standard error one
\* timeout later at the latest.
C28_ExecuteBoundedByTimeout ==
    /\ s_pc = "read_out" => s_elapsed <= TimeoutTicks
    /\ s_pc = "read_err" => s_elapsed <= 2 * TimeoutTicks

\* A reader thread of this child has not ended: the child is alive, or lines
\* it wrote are still in a pipe, waiting for the reader to put them on the
\* queue.
ReaderRunning(ch) == ch.alive \/ ch.outpipe # <<>> \/ ch.errpipe # <<>>

\* C29: when the session is destroyed by close() or restart() the old child is
\* terminated, its two readers are joined and its channels drained: once
\* close() or restart() has returned, no reader of an old process is still
\* running.
C29_ReadersJoinedOnDestroy ==
    s_pc = "idle" /\ s_last.call.op \in {"close", "restart"} =>
        \A c \in Pids : c # process =>
            /\ ~children[c].alive
            /\ ~ReaderRunning(children[c])

\* C30: the readers put lines into per-stream bounded queues: at every moment
\* the number of lines waiting in the standard output queue and in the
\* standard error queue of a child is at most the capacity the queue was made
\* with, however much output the command produces while execute is not
\* draining that queue.
C30_QueuesBounded ==
    \A c \in Pids : /\ Len(children[c].outq) <= QueueMaxsize
                    /\ Len(children[c].errq) <= QueueMaxsize

-----------------------------------------------------------------------------
(* The budget block of run                                                   *)

\* The two texts of the budget block (the amount spent is not modelled).
CountdownText(remaining) ==
    "[" \o ToString(remaining)
        \o " iterations remaining. Write your results now and stop browsing.]"
IterationText(number, max) ==
    "[Iteration " \o ToString(number) \o "/" \o ToString(max) \o " spent]"

\* Largest max_iterations for which the text of the budget block is compared.
MaxBudget == 10

\* The top-level text blocks of a turn.
TextBlockPlaces(turn) ==
    { k \in 1..Len(BlocksOf(turn)) : BlocksOf(turn)[k].type = "text" }

\* C31: whenever run appends a user turn of tool results, that turn holds the
\* tool_result blocks followed by exactly one text block, the budget block; with
\* remaining = max_iterations - (iterations performed so far), the block
\* reports the remaining count when remaining <= floor(0.2 * max_iterations) and
\* the iteration number otherwise; a step that completes the run appends
\* nothing.
C31_BudgetBlockLastAndUnique ==
    [][driver = "run" =>
        /\ (pc = "blocks" /\ pc' = "loop") =>
              LET turn == messages'[Len(messages')]
                  blocks == BlocksOf(turn)
                  performed == i + 1
                  remaining == max_iterations - performed
              IN /\ Len(messages') = Len(messages) + 1
                 /\ turn.role = "user"
                 /\ Len(blocks) = Len(tool_results) + 1
                 /\ \A k \in 1..(Len(blocks) - 1) : IsToolResult(blocks[k])
                 /\ TextBlockPlaces(turn) = {Len(blocks)}
                 /\ blocks[Len(blocks)].text =
                       IF remaining <= (max_iterations * 2) \div 10
                       THEN CountdownText(remaining)
                       ELSE IterationText(performed, max_iterations)
        /\ (pc = "blocks" /\ pc' = "completed") => messages' = messages
        /\ \A max \in 1..MaxBudget : \A performed \in 1..max :
              BudgetMsg(performed - 1, max) =
                 IF max - performed <= (max * 2) \div 10
                 THEN CountdownText(max - performed)
                 ELSE IterationText(performed, max)
    ]_vars

\* C31 witness: a run of two iterations whose first user turn of results ends
\* with the iteration number and whose second ends with the countdown, each
\* after at least one tool_result block.
C31_Witness ==
    /\ driver = "run"
    /\ max_iterations = 2
    /\ Len(messages) = 5
    /\ Len(BlocksOf(messages[3])) >= 2
    /\ Len(BlocksOf(messages[5])) >= 2
    /\ BlocksOf(messages[3])[Len(BlocksOf(messages[3]))] = TextEntry(IterationText(1, 2))
    /\ BlocksOf(messages[5])[Len(BlocksOf(messages[5]))] = TextEntry(CountdownText(0))

-----------------------------------------------------------------------------
(* str_replace of the editor                                                 *)

\* The places of a text where sub occurs.
OccurrencesAt(text, sub) ==
    { k \in 1..(Len(text) - Len(sub) + 1) : SubSeq(text, k, k + Len(sub) - 1) = sub }

\* The text with the Len(old) characters at place k replaced by new.
ReplacedAt(text, k, old, new) ==
    SubSeq(text, 1, k - 1) \o new \o Drop(text, k - 1 + Len(old))

IsErrorMessage(out) ==
    \/ out = "Error: File not found: f"
    \/ out = "Error: No match found for replacement. Please check your text and try again."
    \/ \E n \in 2..(Len(e_before.content) + 1) : out = FoundMatches(n)

\* C32: str_replace changes the file only when old_str occurs exactly once in
\* it, and then the file is its former content with that single occurrence
\* replaced by new_str; when old_str occurs zero times or more than once, or
\* the file does not exist, an error message is returned and the file content
\* is unchanged.
C32_ReplacesOnlyUniqueOccurrence ==
    e_phase = "out" =>
        IF e_before.exists /\ Cardinality(OccurrencesAt(e_before.content, e_old_str)) = 1
        THEN LET k == CHOOSE p \in OccurrencesAt(e_before.content, e_old_str) : TRUE
             IN e_file = StoredFile(ReplacedAt(e_before.content, k, e_old_str, e_new_str))
        ELSE IsErrorMessage(e_out) /\ e_file = e_before

\* C32, the part that holds: whenever an error message is returned the file is
\* as it was, and a missing file and a text that is not in the file are errors.
C32_ErrorsLeaveFileUnchanged ==
    e_phase = "out" =>
        /\ IsErrorMessage(e_out) => e_file = e_before
        /\ ~e_before.exists => IsErrorMessage(e_out)
        /\ (e_before.exists /\ OccurrencesAt(read_text(e_before.content), e_old_str) = {})
              => IsErrorMessage(e_out)

\* C32 restricted to files without carriage returns and to texts that cannot
\* overlap themselves (a single character, or two different ones).
C32_HoldsWithoutOverlapAndCR ==
    (/\ \A k \in 1..Len(e_before.content) : e_before.content[k] # CR
     /\ e_old_str # <<>> => e_old_str[1] # e_old_str[Len(e_old_str)] \/ Len(e_old_str) = 1)
        => C32_ReplacesOnlyUniqueOccurrence

\* C32: the file "aaa" became "ba" when "aa" was to be replaced by "b".
C32_OverlapReplaced ==
    ~(/\ e_phase = "out"
      /\ e_before = StoredFile(<<"a", "a", "a">>)
      /\ e_old_str = <<"a", "a">> /\ e_new_str = <<"b">>
      /\ e_file = StoredFile(<<"b", "a">>))

-----------------------------------------------------------------------------
(* The shape of the conversation                                             *)

\* A remote call returns successfully in this step.
RemoteCallReturns == pc = "create" /\ pc' = "blocks"

RoleAt(k) == IF k % 2 = 1 THEN "user" ELSE "assistant"

\* C33: in every state of a run the conversation begins with a user turn and
\* the roles alternate user, assistant, user, ...; the number of assistant
\* turns is the number of remote calls that have returned successfully (none
\* at the start, one more with each successful return, unchanged by any
\* other step) and never exceeds max_iterations.
C33_RolesAlternate ==
    /\ [](/\ Len(messages) >= 1
          /\ \A k \in 1..Len(messages) : messages[k].role = RoleAt(k)
          /\ NumAssistant <= max_iterations
          /\ api_calls = 0 => NumAssistant = 0)
    /\ [][NumAssistant' = NumAssistant + (IF RemoteCallReturns THEN 1 ELSE 0)]_vars

\* C33 witness: an exhausted run of two iterations holds five turns, two of
\* them assistant turns, one for each of its two remote calls.
C33_Witness ==
    /\ pc = "exhausted"
    /\ max_iterations = 2
    /\ api_calls = 2
    /\ Len(messages) = 5
    /\ NumAssistant = 2

-----------------------------------------------------------------------------
(* The shell at the end of run                                               *)

\* C34: on every exit path of run (completed, exhausted, interrupted, aborted
\* by an exception from the remote call or from a tool) the BashSession that
\* run started has been closed, its child process terminated, by the time run
\* returns or raises; until then the session exists.
C34_ShellClosedOnEveryExit ==
    driver = "run" =>
        /\ bash.spawned >= 1
        /\ pc \in Terminated => ~bash.alive

\* C34 witness: run was aborted by an exception from a tool after the bash
\* tool had been used, and its shell is closed.
C34_Witness ==
    /\ driver = "run"
    /\ pc = "aborted" /\ abort_cause = "tool"
    /\ \E k \in 1..Len(calls) : calls[k].executor = "bash"
    /\ ~bash.alive

-----------------------------------------------------------------------------
(* The children of a session                                                 *)

LiveChildren == { c \in Pids : children[c].alive }

\* C35: a session owns at most one live child at any time, the one its handle
\* names; whenever a child is spawned (by restart or by the auto-restart of
\* execute) every earlier child is dead, and after close no child is alive.
C35_AtMostOneLiveChild ==
    /\ [](/\ Cardinality(LiveChildren) <= 1
          /\ LiveChildren \subseteq {process})
    /\ [][ /\ Len(children') > Len(children) =>
                /\ Len(children') = Len(children) + 1
                /\ process' = Len(children')
                /\ \A c \in Pids : ~children'[c].alive
           /\ CloseReturns => \A c \in 1..Len(children') : ~children'[c].alive
         ]_vars

\* C35 witness: the session is on its third child, one spawned by restart and
\* one by the auto-restart of execute; the third is alive, the first two are
\* dead.
C35_Witness ==
    /\ Len(children) = 3
    /\ {children[2].origin, children[3].origin} = {"restart", "execute"}
    /\ LiveChildren = {3}
    /\ process = 3

-----------------------------------------------------------------------------
(* The queues of a replaced child                                            *)

\* The queue has grown by lines taken from the front of the pipe.
FedFrom(q, q2, pipe, pipe2) ==
    Len(q2) > Len(q) =>
        /\ Len(q2) - Len(q) <= Len(pipe)
        /\ q2 = q \o SubSeq(pipe, 1, Len(q2) - Len(q))
        /\ pipe2 = Drop(pipe, Len(q2) - Len(q))

\* The lines the command of the last call prints in the shell it ran in.
OwnLines ==
    LET p == Printed(s_last.call.command, EnvBefore, CwdBefore)
    IN Lines(p.out) \cup Lines(p.err)

\* C36: after restart() or an auto-restart no output line of the old child
\* appears in the result of a later execute, however the old readers are
\* scheduled.  A child is spawned with empty queues; a queue only ever receives
\* lines from the pipe of its own child; execute takes its lines from the
\* queues of the child it wrote the command to; and a call on a child that
\* replaced another, with no earlier call on it cut short, returns no line but
\* lines its own command prints.
C36_OldOutputNeverInLaterResults ==
    /\ [][ /\ \A c \in Pids :
                /\ FedFrom(children[c].outq, children'[c].outq,
                           children[c].outpipe, children'[c].outpipe)
                /\ FedFrom(children[c].errq, children'[c].errq,
                           children[c].errpipe, children'[c].errpipe)
           /\ Len(children') > Len(children) =>
                /\ children'[Len(children')].outq = <<>>
                /\ children'[Len(children')].errq = <<>>
           /\ Len(s_stdout') > Len(s_stdout) =>
                /\ s_call.pid = process
                /\ s_stdout' = Append(s_stdout, Head(children[process].outq))
           /\ Len(s_stderr') > Len(s_stderr) =>
                /\ s_call.pid = process
                /\ s_stderr' = Append(s_stderr, Head(children[process].errq))
         ]_vars
    /\ [](s_last.call.op = "execute" /\ s_last.call.pid > 1 /\ ~s_last.call.stale
            => Lines(s_last.result) \subseteq OwnLines \cup {""})

\* C36 witness: the first child printed "late" after its call had given up,
\* restart() replaced it, the old reader has put "late" on the old queue, and
\* execute("echo hello") on the new child has returned "hello".
C36_Witness ==
    /\ Executed("echo hello")
    /\ s_last.call.pid = 2
    /\ children[2].origin = "restart"
    /\ s_last.result = <<"hello">>
    /\ "late" \in Lines(children[1].outq)
    /\ children[1].outpipe = <<>>

-----------------------------------------------------------------------------
(* The result of a call after a call that was cut short                      *)

\* C37: for every sequence of execute calls on one live process, also when an
\* earlier call returned by timeout while its command was still running, the
\* text a call returns holds only lines printed by that call's own command and
\* no output line of an earlier command.
C37_OnlyOwnOutput ==
    s_last.call.op = "execute" => Lines(s_last.result) \subseteq OwnLines \cup {""}

\* C37, the part that holds: a call on a child on which no earlier call was
\* cut short returns only lines of its own command.
C37_OnlyOwnOutputWhenNotStale ==
    (s_last.call.op = "execute" /\ ~s_last.call.stale)
        => Lines(s_last.result) \subseteq OwnLines \cup {""}

\* C37: execute("echo hello") never returns the "late" that the command of an
\* earlier, timed-out call printed.
C37_LateNotInHello ==
    ~(Executed("echo hello") /\ "late" \in Lines(s_last.result))

-----------------------------------------------------------------------------
(* A closed session                                                          *)

\* An execute returns in this step.
ExecuteReturns == s_pc \in {"read_out", "read_err"} /\ s_pc' = "idle"

\* C38: close() is not a terminal state.  On a closed session execute can be
\* called; the call that follows a close() starts a new child and writes its
\* command to it, and when it returns the session owns that child, alive
\* (unless the command was exit), and the result is what the command prints in
\* a new shell.
C38_ExecuteAfterCloseStartsChild ==
    /\ [](s_pc = "idle" /\ process = 0 /\ s_calls < MaxCalls => ENABLED Execute)
    /\ [][ s_last.call.op = "close" =>
             /\ ExecuteStarts =>
                  /\ process = 0
                  /\ process' = Len(children) + 1
                  /\ children'[process'].alive
                  /\ children'[process'].origin = "execute"
                  /\ s_call'.spawned /\ s_call'.pid = process'
             /\ ExecuteReturns =>
                  /\ process' # 0
                  /\ s_last'.call.pid = process'
                  /\ s_last'.call.command # "exit" => children'[process'].alive
                  /\ s_last'.expired = 0 =>
                        LET p == Printed(s_last'.call.command, "empty", "/home")
                        IN NonBlank(s_last'.result) = p.out \o p.err
         ]_vars

\* C38 witness: close() ended the first child; the execute("echo hello") that
\* followed has started a second child, which is alive, and has read "hello"
\* from it.
C38_Witness ==
    /\ s_last.call.op = "close"
    /\ s_last.call.pid = 1
    /\ s_pc = "read_err"
    /\ s_call.command = "echo hello"
    /\ s_call.spawned
    /\ process = 2
    /\ children[2].alive
    /\ ~children[1].alive
    /\ NonBlank(s_stdout) = <<"hello">>

-----------------------------------------------------------------------------
(* The images held by the conversation                                       *)

\* The number of tool_use blocks of the most recent assistant turn.
LatestToolUses ==
    IF AssistantPlaces = {} THEN 0
    ELSE LET latest == CHOOSE k \in AssistantPlaces : \A j \in AssistantPlaces : j <= k
         IN Len(UseIds(messages[latest]))

-----------------------------------------------------------------------------
(* The two streams of a call                                                 *)

\* The shell of the call in progress is alive and has run everything it was
\* sent, the command of the call included.
CommandTerminated ==
    /\ Reading
    /\ children[process].alive
    /\ children[process].stdin = <<>>

\* C40: execute cannot deadlock on the two streams.  Whatever the caller waits
\* on, the reader of a pipe that holds lines can take them, so no shell is ever
\* held up by a pipe nobody reads; and when the command has terminated, the
\* shell is alive and the readers have handed over all that was written, the
\* marker of the call has reached both queues (the one on the error queue is
\* taken only when the call returns, the one on the output queue not before
\* the caller has left the output queue).
C40_NoDeadlockOnTwoStreams ==
    /\ \A c \in Pids :
          /\ children[c].outpipe # <<>> => Movable(children[c].outq, children[c].outpipe) > 0
          /\ children[c].errpipe # <<>> => Movable(children[c].errq, children[c].errpipe) > 0
    /\ (CommandTerminated /\ children[process].errpipe = <<>>)
          => s_sentinel \in Lines(children[process].errq)
    /\ (CommandTerminated /\ s_pc = "read_out" /\ children[process].outpipe = <<>>)
          => s_sentinel \in Lines(children[process].outq)

\* C40, the part that holds: the readers are never held up, and the marker
\* reaches both queues after every command that does not read standard input.
C40_NoDeadlockUnlessStdinRead ==
    /\ \A c \in Pids :
          /\ children[c].outpipe # <<>> => Movable(children[c].outq, children[c].outpipe) > 0
          /\ children[c].errpipe # <<>> => Movable(children[c].errq, children[c].errpipe) > 0
    /\ (CommandTerminated /\ children[process].errpipe = <<>>)
          => s_sentinel \in Lines(children[process].errq)
    /\ (CommandTerminated /\ s_pc = "read_out" /\ children[process].outpipe = <<>>
          /\ s_call.command # "read a; read b")
          => s_sentinel \in Lines(children[process].outq)

\* C40: a call of execute("read a; read b") on a fresh shell never gives up on
\* the output queue.
C40_ReadCommandNeverTimesOut ==
    ~(/\ Executed("read a; read b")
      /\ ~s_last.call.stale
      /\ s_last.expired = TimeoutTicks
      /\ s_last.result = <<>>
      /\ children[s_last.call.pid].alive)

====
